---- MODULE Spec2Model ----
(***************************************************************************)
(* Model of the beach recommendation engine of be-oceanique:               *)
(* src/src/controllers/recommendationController.ts (BeachRecommendations   *)
(* and its helpers, updateUserPreferences) over the tables they use.       *)
(*                                                                         *)
(* JavaScript numbers are IEEE-754 binary64.  The scorer divides,          *)
(* multiplies and adds them and rounds the result, so the arithmetic is    *)
(* modelled bit for bit: a double is a 53-bit significand held in two      *)
(* machine words (hi * 2^28 + lo) with a binary exponent, and every        *)
(* operation rounds to nearest, ties to even.  Only NaN, zero and positive *)
(* finite values arise from non-negative stored scores.                    *)
(***************************************************************************)
EXTENDS Integers, Sequences, FiniteSets, TLC

(***************************************************************************)
(* IEEE-754 binary64, non-negative values                                  *)
(***************************************************************************)
W28 == 2^28

\* words of a significand: value hi * 2^28 + lo, 0 <= lo < 2^28
Wd(hi, lo) == [hi |-> hi, lo |-> lo]

NaN == [k |-> "nan", hi |-> 0, lo |-> 0, e |-> 0]

FZero == [k |-> "zero", hi |-> 0, lo |-> 0, e |-> 0]

\* a positive double: (hi * 2^28 + lo) * 2^e with 2^52 <= hi * 2^28 + lo < 2^53
FPos(hi, lo, e) == [k |-> "pos", hi |-> hi, lo |-> lo, e |-> e]

RECURSIVE BitLen(_)
BitLen(n) == IF n = 0 THEN 0 ELSE 1 + BitLen(n \div 2)

\* the double of a small non-negative integer (exact)
FromInt(n) ==
    IF n = 0 THEN FZero
    ELSE LET L == BitLen(n) IN FPos(n * 2^(25 - L), 0, L - 53)

\* x > 0 as JavaScript evaluates it (false for NaN, undefined and 0)
FGtZero(x) == x.k = "pos"

\* a + 1 on a two-word number
WInc(a) == IF a.lo + 1 = W28 THEN Wd(a.hi + 1, 0) ELSE Wd(a.hi, a.lo + 1)

\* 2a + bit on a two-word number
WDbl(a, bit) ==
    LET l == 2 * a.lo + bit
    IN IF l >= W28 THEN Wd(2 * a.hi + 1, l - W28) ELSE Wd(2 * a.hi, l)

WGeq(a, b) == a.hi > b.hi \/ (a.hi = b.hi /\ a.lo >= b.lo)

\* a - b for a >= b
WSub(a, b) ==
    IF a.lo >= b.lo THEN Wd(a.hi - b.hi, a.lo - b.lo)
    ELSE Wd(a.hi - b.hi - 1, a.lo + W28 - b.lo)

WAdd(a, b) ==
    LET l == a.lo + b.lo
    IN IF l >= W28 THEN Wd(a.hi + b.hi + 1, l - W28) ELSE Wd(a.hi + b.hi, l)

\* a shifted right by d bits, the lost bits or-ed into bit 0 (sticky)
WShrSticky(a, d) ==
    IF d = 0 THEN a
    ELSE IF d >= 57 THEN Wd(0, IF a.hi # 0 \/ a.lo # 0 THEN 1 ELSE 0)
    ELSE IF d >= 28 THEN
        LET s == d - 28
            l == a.hi \div 2^s
            lost == (a.hi % 2^s # 0) \/ (a.lo # 0)
        IN Wd(0, IF lost /\ l % 2 = 0 THEN l + 1 ELSE l)
    ELSE
        LET l == (a.lo \div 2^d) + (a.hi % 2^d) * 2^(28 - d)
            lost == a.lo % 2^d # 0
        IN Wd(a.hi \div 2^d, IF lost /\ l % 2 = 0 THEN l + 1 ELSE l)

\* round a significand q with `extra` low guard bits (the lowest one sticky)
\* to 53 bits, nearest, ties to even; q >= 2^(52 + extra); e is the exponent
\* of q's lowest bit
RoundTo53(q, extra, e) ==
    LET half == 2^(extra - 1)
        rest == q.lo % 2^extra
        kept == Wd(q.hi \div 2^extra,
                   (q.lo \div 2^extra) + (q.hi % 2^extra) * 2^(28 - extra))
        up == rest > half \/ (rest = half /\ kept.lo % 2 = 1)
        r == IF up THEN WInc(kept) ELSE kept
    IN IF r.hi = 2^25 THEN FPos(2^24, 0, e + extra + 1)
       ELSE FPos(r.hi, r.lo, e + extra)

\* x + y (IEEE-754 addition of non-negative doubles)
FAdd(x, y) ==
    IF x.k = "nan" \/ y.k = "nan" THEN NaN
    ELSE IF x.k = "zero" THEN y
    ELSE IF y.k = "zero" THEN x
    ELSE LET a == IF x.e >= y.e THEN x ELSE y
             b == IF x.e >= y.e THEN y ELSE x
             d == a.e - b.e
             \* three guard bits
             A == Wd(a.hi * 8 + a.lo \div 2^25, (a.lo % 2^25) * 8)
             B == WShrSticky(Wd(b.hi * 8 + b.lo \div 2^25, (b.lo % 2^25) * 8), d)
             S == WAdd(A, B)
         IN IF S.hi >= 2^28
            THEN RoundTo53(S, 4, a.e - 3)
            ELSE RoundTo53(S, 3, a.e - 3)

\* x * y (IEEE-754 multiplication of non-negative doubles)
FMul(x, y) ==
    IF x.k = "nan" \/ y.k = "nan" THEN NaN
    ELSE IF x.k = "zero" \/ y.k = "zero" THEN FZero
    ELSE LET B == 2^14
             x0 == x.lo % B   x1 == x.lo \div B
             x2 == x.hi % B   x3 == x.hi \div B
             y0 == y.lo % B   y1 == y.lo \div B
             y2 == y.hi % B   y3 == y.hi \div B
             c0 == x0 * y0
             c1 == x0 * y1 + x1 * y0 + c0 \div B
             c2 == x0 * y2 + x1 * y1 + x2 * y0 + c1 \div B
             c3 == x0 * y3 + x1 * y2 + x2 * y1 + x3 * y0 + c2 \div B
             c4 == x1 * y3 + x2 * y2 + x3 * y1 + c3 \div B
             c5 == x2 * y3 + x3 * y2 + c4 \div B
             c6 == x3 * y3 + c5 \div B
             p3 == c3 % B   p4 == c4 % B   p5 == c5 % B
             p6 == c6 % B   p7 == c6 \div B
             sticky == c0 % B # 0 \/ c1 % B # 0 \/ c2 % B # 0
             \* the product is p7..p0 base 2^14, in [2^104, 2^106); keep the
             \* bits from bit 50 up (p3 bit 8 up) as a number with 3 or 4
             \* guard bits, the lowest one sticky
             lowlost == sticky \/ p3 % 2^8 # 0
             l0 == (p3 \div 2^8) + p4 * 2^6 + (p5 % 2^8) * 2^20
             q == Wd((p5 \div 2^8) + p6 * 2^6 + p7 * 2^20,
                     IF lowlost /\ l0 % 2 = 0 THEN l0 + 1 ELSE l0)
         IN IF q.hi >= 2^27
            THEN RoundTo53(q, 3, x.e + y.e + 50)
            ELSE RoundTo53(q, 2, x.e + y.e + 50)

\* long division in base 2^14 limbs, least significant first
B14 == 2^14

Limbs(a) == <<a.lo % B14, a.lo \div B14, a.hi % B14, a.hi \div B14>>

\* carries propagated through four limbs; c is the carry out of the top one
\* (-1 when the number is negative)
Carried(u) ==
    LET v1 == u[2] + (u[1] \div B14)
        v2 == u[3] + (v1 \div B14)
        v3 == u[4] + (v2 \div B14)
    IN [l |-> <<u[1] % B14, v1 % B14, v2 % B14, v3 % B14>>, c |-> v3 \div B14]

LimbsGeq(a, b) ==
    \/ a[4] > b[4]
    \/ a[4] = b[4] /\ a[3] > b[3]
    \/ a[4] = b[4] /\ a[3] = b[3] /\ a[2] > b[2]
    \/ a[4] = b[4] /\ a[3] = b[3] /\ a[2] = b[2] /\ a[1] >= b[1]

\* a quotient digit est tried on r * 2^k, t being r * 2^k - est * y: est is
\* off by one at most
DivDigitAdjust(est, t, y) ==
    IF t.c < 0
    THEN [d |-> est - 1, r |-> Carried([i \in 1..4 |-> t.l[i] + y[i]]).l]
    ELSE IF LimbsGeq(t.l, y)
    THEN [d |-> est + 1, r |-> Carried([i \in 1..4 |-> t.l[i] - y[i]]).l]
    ELSE [d |-> est, r |-> t.l]

DivDigitTry(r, y, k, est) ==
    DivDigitAdjust(est, Carried([i \in 1..4 |-> r[i] * 2^k - est * y[i]]), y)

\* one quotient digit of k bits: d = floor(r * 2^k / y) and the remainder
\* r * 2^k - d * y, for r < 2^(64 - k) and r * 2^k < 2^12 * y.  The digit is
\* estimated from the leading bits of r and y.
DivDigit(r, y, k) ==
    DivDigitTry(r, y, k,
                (r[4] * 2^(8 + k) + r[3] * 2^(k - 6) + (r[2] \div 2^(20 - k)))
                    \div (y[4] * 2^8 + (y[3] \div 2^6)))

DivStepAppend(p, dg) == [r |-> dg.r, ds |-> Append(p.ds, dg.d)]

DivStep(p, y, k) == DivStepAppend(p, DivDigit(p.r, y, k))

\* the first i quotient digits of r0 / y (10 bits, then 11 bits each) and
\* the remainder left
RECURSIVE DivSteps(_, _, _)
DivSteps(r0, y, i) ==
    IF i = 0 THEN [r |-> r0, ds |-> <<>>]
    ELSE DivStep(DivSteps(r0, y, i - 1), y, IF i = 1 THEN 10 ELSE 11)

\* l with the sticky bit or-ed into bit 0
Sticky(l, lost) == IF lost /\ l % 2 = 0 THEN l + 1 ELSE l

\* the 55 quotient bits as a two-word number, the remainder or-ed in
DivQuotient(ds, r) ==
    Wd((ds[3] \div 2^6) + ds[2] * 2^5 + ds[1] * 2^16,
       Sticky(ds[5] + ds[4] * 2^11 + (ds[3] % 2^6) * 2^22, r # <<0, 0, 0, 0>>))

FDivRound(s, e) == RoundTo53(DivQuotient(s.ds, s.r), 2, e)

\* 55 quotient bits of r0 / y with 1 <= r0 / y < 2, r0 being x or 2x: 53 of
\* the significand and two guard bits, in five digits
FDivPos(x, y, small) ==
    FDivRound(DivSteps(Limbs(IF small THEN WDbl(x, 0) ELSE x), Limbs(y), 5),
              x.e - y.e - 54 - (IF small THEN 1 ELSE 0))

\* x / y (IEEE-754 division of non-negative doubles; 0/0 is NaN)
FDiv(x, y) ==
    IF x.k = "nan" \/ y.k = "nan" THEN NaN
    ELSE IF y.k = "zero" THEN NaN
    ELSE IF x.k = "zero" THEN FZero
    ELSE FDivPos(x, y, ~WGeq(x, y))

\* Math.round(x) for 0 <= x < 2^24: the nearest integer, halves upward;
\* NaN is reported as -1
MathRound(x) ==
    IF x.k = "nan" THEN -1
    ELSE IF x.k = "zero" THEN 0
    ELSE LET s == 0 - x.e
         IN IF s >= 54 THEN 0
            ELSE (x.hi \div 2^(s - 28)) + ((x.hi \div 2^(s - 29)) % 2)

(***************************************************************************)
(* Bounds of the model                                                     *)
(***************************************************************************)
\* stored scores range over 0..MaxScore
MaxScore == 3

\* a request selects at most MaxSelected option IDs
MaxSelected == 3

(***************************************************************************)
(* Reference data: preference_categories and options                       *)
(***************************************************************************)
\* preference_categories: id -> name
preference_categories == <<"Scenery", "Facilities", "Activities">>

CategoryIds == DOMAIN preference_categories

\* options: id -> preference_categories_id
options == <<1, 1, 2>>

\* the option IDs a client may send: those of the table and one unknown ID
RequestOptionIds == 1..(Len(options) + 1)

(***************************************************************************)
(* State                                                                   *)
(***************************************************************************)
VARIABLES
    user_preferences,         \* rows [cat, score] of the session user
    review_summary,           \* rows [beaches_id, options_id, total_votes]
    beaches_default_options,  \* rows [beaches_id, options_id]
    beaches,                  \* beach IDs the detail query's joins return
    contents,                 \* rows [id, beaches_id, reviews_id, path]
    reviews,                  \* rows [id, beaches_id]
    option_votes,             \* rows [reviews_id, options_id]
    lastContentId,            \* the AUTO_INCREMENT value contents reached
    pc,                       \* where BeachRecommendations stands
    userOptions,              \* req.body.userOptions
    topN,                     \* req.body.topN, which the handler never reads
    preferenceRows,           \* the rows getUserPreferenceWeights read
    weights,                  \* getUserPreferenceWeights' result
    optionCategoryMap,        \* getOptionCategoryMap's result
    reviewSummaryBeachIds,    \* first query of getBeachOptions
    beachOptions,             \* second query of getBeachOptions, in row order
    beachMap,                 \* groupBeachOptionsByBeachId's result
    results,                  \* calculateBeachMatches' result
    queries,                  \* the queries issued so far
    response,                 \* what res.status(..).json(..) sent
    failedQuery,              \* the query of the request that threw, if any
    released,                 \* connection.release() calls of the request
    served,                   \* the requests answered before the one at hand
    other,                    \* the locals of a second, concurrent request
    updaters,                 \* the updateUserPreferences requests in flight
    categoryRequest,          \* the getPreferenceCategories request in flight
    reviewStatus,             \* the status addReview or editReview sent last
    tx                        \* the review handler run statement by statement

dbVars == <<user_preferences, review_summary, beaches_default_options, beaches,
            contents, reviews, option_votes, lastContentId>>

reqVars == <<pc, userOptions, topN, preferenceRows, weights, optionCategoryMap,
             reviewSummaryBeachIds, beachOptions, beachMap, results, queries,
             response, failedQuery, released, served, other>>

vars == <<dbVars, reqVars, updaters, categoryRequest, reviewStatus, tx>>

(***************************************************************************)
(* getUserPreferenceWeights                                                *)
(***************************************************************************)
EmptyMap == [n \in {} |-> FZero]

\* the rows of the query: user_preferences joined with preference_categories
UserPreferenceRows(table) ==
    [i \in DOMAIN table |->
        [name |-> preference_categories[table[i].cat], rank |-> table[i].score]]

RECURSIVE SumRank(_, _)
SumRank(userPreferences, i) ==
    IF i = 0 THEN 0 ELSE SumRank(userPreferences, i - 1) + userPreferences[i].rank

\* weights[pref.name] = pref.rank / maxRank, a later row of a name replacing
\* an earlier one
GetUserPreferenceWeights(userPreferences) ==
    IF Len(userPreferences) = 0 THEN EmptyMap
    ELSE LET maxRank == SumRank(userPreferences, Len(userPreferences))
             names == {userPreferences[i].name : i \in DOMAIN userPreferences}
             last(n) == CHOOSE i \in DOMAIN userPreferences :
                            /\ userPreferences[i].name = n
                            /\ \A j \in DOMAIN userPreferences :
                                   userPreferences[j].name = n => j <= i
         IN [n \in names |->
                FDiv(FromInt(userPreferences[last(n)].rank), FromInt(maxRank))]

(***************************************************************************)
(* getOptionCategoryMap                                                    *)
(***************************************************************************)
GetOptionCategoryMap ==
    [o \in DOMAIN options |-> preference_categories[options[o]]]

(***************************************************************************)
(* getBeachOptions and groupBeachOptionsByBeachId                          *)
(***************************************************************************)
\* the second query with its NOT IN filter left out
BeachOptionRowsUnion(ids, rs, bdo) ==
    {[beaches_id |-> r.beaches_id, options_id |-> r.options_id,
      source |-> "review_summary"] : r \in {x \in rs : x.beaches_id \in ids}}
    \cup
    {[beaches_id |-> r.beaches_id, options_id |-> r.options_id,
      source |-> "default_options"] : r \in bdo}

\* the second query with the default rows first: review rows only for the
\* beaches without default rows
BeachOptionRowsDefaultsFirst(ids, rs, bdo) ==
    {[beaches_id |-> r.beaches_id, options_id |-> r.options_id,
      source |-> "default_options"] : r \in bdo}
    \cup
    {[beaches_id |-> r.beaches_id, options_id |-> r.options_id,
      source |-> "review_summary"] :
        r \in {x \in rs : /\ x.beaches_id \in ids
                           /\ \A d \in bdo : d.beaches_id # x.beaches_id}}

\* the second query taking the review rows of every beach review_summary
\* holds when it runs, and the default rows of the beaches outside ids
BeachOptionRowsFreshReviews(ids, rs, bdo) ==
    {[beaches_id |-> r.beaches_id, options_id |-> r.options_id,
      source |-> "review_summary"] : r \in rs}
    \cup
    {[beaches_id |-> r.beaches_id, options_id |-> r.options_id,
      source |-> "default_options"] : r \in {x \in bdo : x.beaches_id \notin ids}}

\* SELECT DISTINCT beaches_id FROM review_summary
ReviewSummaryBeaches(rs) == {r.beaches_id : r \in rs}

\* the second query, for the beach IDs the first one returned
BeachOptionRows(ids, rs, bdo) ==
    IF ids # {}
    THEN {[beaches_id |-> r.beaches_id, options_id |-> r.options_id,
           source |-> "review_summary"] : r \in {x \in rs : x.beaches_id \in ids}}
         \cup
         {[beaches_id |-> r.beaches_id, options_id |-> r.options_id,
           source |-> "default_options"] : r \in {x \in bdo : x.beaches_id \notin ids}}
    ELSE {[beaches_id |-> r.beaches_id, options_id |-> r.options_id,
           source |-> "default_options"] : r \in bdo}

\* beachMap[beaches_id].push(options_id) for each row; the arrays are only
\* searched with includes, so each is kept as the set of its elements, and
\* the keys are integers, which Object.entries lists in ascending order
GroupBeachOptionsByBeachId(rows) ==
    [b \in {rows[i].beaches_id : i \in DOMAIN rows} |->
        {rows[i].options_id : i \in {j \in DOMAIN rows : rows[j].beaches_id = b}}]

(***************************************************************************)
(* calculateBeachMatches                                                   *)
(***************************************************************************)
\* the keys of userOptionsByCategory in insertion order, after the first i
\* selected options
RECURSIVE CategoryOrder(_, _, _)
CategoryOrder(opts, ocm, i) ==
    IF i = 0 THEN <<>>
    ELSE LET before == CategoryOrder(opts, ocm, i - 1)
         IN IF opts[i] \in DOMAIN ocm
               /\ \A j \in DOMAIN before : before[j] # ocm[opts[i]]
            THEN Append(before, ocm[opts[i]])
            ELSE before

\* a grouping that keeps an option without a category in every list
UserOptionsByCategoryKeepUnknown(opts, ocm) ==
    LET order == CategoryOrder(opts, ocm, Len(opts))
        in(c, o) == o \notin DOMAIN ocm \/ ocm[o] = c
    IN [k \in DOMAIN order |->
           [category |-> order[k],
            options |-> SelectSeq(opts, LAMBDA o : in(order[k], o))]]

\* userOptionsByCategory as the list of its entries; an option without a
\* category is dropped
UserOptionsByCategory(opts, ocm) ==
    LET order == CategoryOrder(opts, ocm, Len(opts))
        in(c, o) == o \in DOMAIN ocm /\ ocm[o] = c
    IN [k \in DOMAIN order |->
           [category |-> order[k],
            options |-> SelectSeq(opts, LAMBDA o : in(order[k], o))]]

\* weights[category]: undefined for a category without a weight
Undefined == [k |-> "undefined", hi |-> 0, lo |-> 0, e |-> 0]

\* a scorer that gives a category without a weight the weight 1
RankScoreDefaultOne(wts, category) ==
    IF category \in DOMAIN wts THEN wts[category] ELSE FromInt(1)

RankScore(wts, category) ==
    IF category \in DOMAIN wts THEN wts[category] ELSE Undefined

\* the Jaccard similarity proper: intersection.length / union.length
CategoryScoreJaccard(category, categoryOptions, beachOptionSet, ocm) ==
    LET matchingOptions ==
            SelectSeq(categoryOptions, LAMBDA o : o \in beachOptionSet)
        beachCategoryOptions ==
            {o \in beachOptionSet : o \in DOMAIN ocm /\ ocm[o] = category}
        union == {categoryOptions[j] : j \in DOMAIN categoryOptions}
                     \cup beachCategoryOptions
    IN FDiv(FromInt(Len(matchingOptions)), FromInt(Cardinality(union)))

\* matchingOptions.length / categoryOptions.length
CategoryScore(category, categoryOptions, beachOptionSet, ocm) ==
    LET matchingOptions ==
            SelectSeq(categoryOptions, LAMBDA o : o \in beachOptionSet)
    IN FDiv(FromInt(Len(matchingOptions)), FromInt(Len(categoryOptions)))

\* if (rankScore > 0) { totalWeightedScore += categoryScore * rankScore;
\* totalPossibleWeight += rankScore }
Accumulate(t, categoryScore, rankScore) ==
    IF FGtZero(rankScore)
    THEN [totalWeightedScore |->
              FAdd(t.totalWeightedScore, FMul(categoryScore, rankScore)),
          totalPossibleWeight |-> FAdd(t.totalPossibleWeight, rankScore)]
    ELSE t

\* totalWeightedScore and totalPossibleWeight after the first i entries
RECURSIVE CategoryTotals(_, _, _, _, _)
CategoryTotals(entries, i, beachOptionSet, ocm, wts) ==
    IF i = 0 THEN [totalWeightedScore |-> FZero, totalPossibleWeight |-> FZero]
    ELSE Accumulate(CategoryTotals(entries, i - 1, beachOptionSet, ocm, wts),
                    CategoryScore(entries[i].category, entries[i].options,
                                  beachOptionSet, ocm),
                    RankScore(wts, entries[i].category))

\* a similarity that divides without testing totalPossibleWeight > 0
SimilarityUnguarded(t) == FDiv(t.totalWeightedScore, t.totalPossibleWeight)

\* a similarity that is full when nothing selected carries weight
SimilarityFullWhenNothing(t) ==
    IF FGtZero(t.totalPossibleWeight)
    THEN FDiv(t.totalWeightedScore, t.totalPossibleWeight)
    ELSE FromInt(1)

\* a similarity that does not divide by totalPossibleWeight
SimilarityUnnormalised(t) == t.totalWeightedScore

\* totalPossibleWeight > 0 ? totalWeightedScore / totalPossibleWeight : 0
Similarity(t) ==
    IF FGtZero(t.totalPossibleWeight)
    THEN FDiv(t.totalWeightedScore, t.totalPossibleWeight)
    ELSE FZero

\* Math.round(similarity * 100) of one beach
MatchPercentage(entries, beachOptionSet, ocm, wts) ==
    MathRound(FMul(Similarity(CategoryTotals(entries, Len(entries),
                                             beachOptionSet, ocm, wts)),
                   FromInt(100)))

\* the elements of a set of integers in ascending order (Object.entries of
\* an object with integer keys)
RECURSIVE Ascending(_)
Ascending(S) ==
    IF S = {} THEN <<>>
    ELSE LET m == CHOOSE x \in S : \A y \in S : x <= y
         IN <<m>> \o Ascending(S \ {m})

\* the sort with the comparator a.match_percentage - b.match_percentage
RECURSIVE SortByMatchAscending(_, _)
SortByMatchAscending(rs, i) ==
    IF i = 0 THEN <<>>
    ELSE LET sorted == SortByMatchAscending(rs, i - 1)
             ahead == {j \in DOMAIN sorted :
                          sorted[j].match_percentage <= rs[i].match_percentage}
             n == Cardinality(ahead)
         IN SubSeq(sorted, 1, n) \o <<rs[i]>> \o SubSeq(sorted, n + 1, Len(sorted))

\* a sort that is not stable: an element goes in front of its equals
RECURSIVE SortByMatchUnstable(_, _)
SortByMatchUnstable(rs, i) ==
    IF i = 0 THEN <<>>
    ELSE LET sorted == SortByMatchUnstable(rs, i - 1)
             ahead == {j \in DOMAIN sorted :
                          sorted[j].match_percentage > rs[i].match_percentage}
             n == Cardinality(ahead)
         IN SubSeq(sorted, 1, n) \o <<rs[i]>> \o SubSeq(sorted, n + 1, Len(sorted))

\* Array.prototype.sort with (a, b) => b.match_percentage - a.match_percentage:
\* stable, by insertion of the first i elements
RECURSIVE SortByMatch(_, _)
SortByMatch(rs, i) ==
    IF i = 0 THEN <<>>
    ELSE LET sorted == SortByMatch(rs, i - 1)
             ahead == {j \in DOMAIN sorted :
                          sorted[j].match_percentage >= rs[i].match_percentage}
             n == Cardinality(ahead)
         IN SubSeq(sorted, 1, n) \o <<rs[i]>> \o SubSeq(sorted, n + 1, Len(sorted))

\* only the beaches that match at all are pushed
UnsortedMatching(ids, entries, bMap, ocm, wts) ==
    SelectSeq([k \in DOMAIN ids |->
                  [beach_id |-> ids[k],
                   match_percentage |->
                       MatchPercentage(entries, bMap[ids[k]], ocm, wts)]],
              LAMBDA r : r.match_percentage > 0)

\* results.push({beach_id, match_percentage}) for each beach of ids
Unsorted(ids, entries, bMap, ocm, wts) ==
    [k \in DOMAIN ids |->
        [beach_id |-> ids[k],
         match_percentage |-> MatchPercentage(entries, bMap[ids[k]], ocm, wts)]]

Sorted(rs) == SortByMatch(rs, Len(rs))

CalculateBeachMatches(opts, bMap, ocm, wts) ==
    Sorted(Unsorted(Ascending(DOMAIN bMap), UserOptionsByCategory(opts, ocm),
                    bMap, ocm, wts))

(***************************************************************************)
(* getDetailedBeachResults                                                 *)
(***************************************************************************)
\* results.slice(0, 5)
TopN == 5

Slice(rs, n) == SubSeq(rs, 1, IF Len(rs) < n THEN Len(rs) ELSE n)

\* c.path of a beach without contents rows (LEFT JOIN)
NoPath == "null"

\* the file name `${contentId}${extension}` of the contents row of each ID
Paths == <<"1.jpg", "2.jpg">>

\* the rows of the detail query for the beach IDs of top: the inner joins
\* keep the beaches of bs, the left join gives one row per contents row
BeachDetailRows(top, bs, cs) ==
    {[id |-> b, path |-> NoPath] :
        b \in {x \in {top[k].beach_id : k \in DOMAIN top} \cap bs :
                  \A c \in cs : c.beaches_id # x}}
    \cup
    {[id |-> c.beaches_id, path |-> c.path] :
        c \in {x \in cs : x.beaches_id \in {top[k].beach_id : k \in DOMAIN top} \cap bs}}

\* beachDetailsMap[beach.id] = beach for each row: the last row of an ID stays
BeachDetailsMap(beachDetails) ==
    [b \in {beachDetails[i].id : i \in DOMAIN beachDetails} |->
        beachDetails[CHOOSE i \in DOMAIN beachDetails :
                         /\ beachDetails[i].id = b
                         /\ \A j \in DOMAIN beachDetails :
                                beachDetails[j].id = b => j <= i]]

\* beachDetail.id of a beach the query did not return throws a TypeError
DetailsThrow(top, beachDetails) ==
    \E k \in DOMAIN top :
        top[k].beach_id \notin {beachDetails[i].id : i \in DOMAIN beachDetails}

GetDetailedBeachResults(top, beachDetails) ==
    [k \in DOMAIN top |->
        [beach_id |-> top[k].beach_id,
         match_percentage |-> top[k].match_percentage,
         id |-> BeachDetailsMap(beachDetails)[top[k].beach_id].id,
         img |-> <<"/uploads/contents/",
                   BeachDetailsMap(beachDetails)[top[k].beach_id].path>>]]

(***************************************************************************)
(* The order of the rows of a query without ORDER BY                       *)
(***************************************************************************)
RowOrders == {"asc", "desc"}

\* the values of f, by ascending or by descending key
InOrder(f, keys, order) ==
    [i \in DOMAIN keys |->
        f[keys[IF order = "asc" THEN i ELSE Len(keys) + 1 - i]]]

OptionRowKey(r) ==
    (r.beaches_id * 16 + r.options_id) * 2
        + (IF r.source = "review_summary" THEN 0 ELSE 1)

OptionRowsInOrder(rows, order) ==
    InOrder([k \in {OptionRowKey(r) : r \in rows} |->
                CHOOSE r \in rows : OptionRowKey(r) = k],
            Ascending({OptionRowKey(r) : r \in rows}), order)

DetailRowKey(r) ==
    r.id * 4 + (IF r.path = NoPath THEN 0
                ELSE CHOOSE i \in DOMAIN Paths : Paths[i] = r.path)

DetailRowsInOrder(rows, order) ==
    InOrder([k \in {DetailRowKey(r) : r \in rows} |->
                CHOOSE r \in rows : DetailRowKey(r) = k],
            Ascending({DetailRowKey(r) : r \in rows}), order)

(***************************************************************************)
(* BeachRecommendations                                                    *)
(***************************************************************************)
NoResponse == [status |-> 0, message |-> "", hasData |-> FALSE, data |-> <<>>]

Respond(status, message) ==
    [status |-> status, message |-> message, hasData |-> FALSE, data |-> <<>>]

RespondData(status, message, data) ==
    [status |-> status, message |-> message, hasData |-> TRUE, data |-> data]

\* req.body.userOptions: absent, something that is no array, or a list
MissingOptions == [kind |-> "undefined", list |-> <<>>]

NotAnArray == [kind |-> "object", list |-> <<>>]

OptionList(l) == [kind |-> "array", list |-> l]

OptionLists(n) == UNION {[1..k -> RequestOptionIds] : k \in 0..n}

Bodies == {MissingOptions, NotAnArray} \cup {OptionList(l) : l \in OptionLists(MaxSelected)}

\* a validation that only tests !userOptions
InvalidOptionsMissingOnly(body) == body.kind = "undefined"

\* !userOptions || !Array.isArray(userOptions) || userOptions.length === 0
InvalidOptions(body) == body.kind # "array" \/ Len(body.list) = 0

\* a handler that never takes the 'User preferences not found' branch
NoWeightsIgnored(w) == FALSE

\* Object.keys(weights).length === 0
NoWeights(w) == DOMAIN w = {}

\* no topN in the request body
NoLimit == 0

\* no query of the request has thrown
NoQuery == ""

\* a catch block that answers with what the request has computed so far
CaughtResponsePartial ==
    RespondData(200, "Beach recommendations generated successfully", results)

\* the catch block of BeachRecommendations
CaughtResponse == Respond(500, "Server error generating recommendations")

\* a finally block without connection.release()
ReleaseForgotten(n) == n

\* connection.release() in the finally block
Release(n) == n + 1

\* the releases after a step of the request: the finally block runs when
\* the handler returns
ReleasedAfter(n, at) == IF at = "done" THEN Release(n) ELSE n

\* the end of BeachRecommendations: the enriched records, or the catch block
DetailsResponse(top, beachDetails) ==
    IF DetailsThrow(top, beachDetails)
    THEN CaughtResponse
    ELSE RespondData(200, "Beach recommendations generated successfully",
                     GetDetailedBeachResults(top, beachDetails))

\* the request arrives and pool.getConnection() resolves
Request(body, limit) ==
    /\ pc = "idle"
    /\ pc' = "connected"
    /\ userOptions' = body
    /\ topN' = limit
    /\ released' = 0
    /\ UNCHANGED <<dbVars, updaters, categoryRequest, reviewStatus, tx, failedQuery, served, other, preferenceRows, weights, optionCategoryMap,
                   reviewSummaryBeachIds, beachOptions, beachMap, results, queries, response>>

\* input validation, then the user_preferences query is sent
Validate ==
    /\ pc = "connected"
    /\ IF InvalidOptions(userOptions)
       THEN /\ response' = Respond(400, "No user options provided")
            /\ pc' = "done"
            /\ UNCHANGED queries
       ELSE /\ queries' = Append(queries, "user_preferences")
            /\ pc' = "await_preferences"
            /\ UNCHANGED response
    /\ released' = ReleasedAfter(released, pc')
    /\ UNCHANGED <<dbVars, updaters, categoryRequest, reviewStatus, tx, failedQuery, served, other, userOptions, topN, preferenceRows, weights, optionCategoryMap,
                   reviewSummaryBeachIds, beachOptions, beachMap, results>>

\* the rows arrive; the weights are computed; the options query is sent
PreferencesRead ==
    /\ pc = "await_preferences"
    /\ preferenceRows' = UserPreferenceRows(user_preferences)
    /\ weights' = GetUserPreferenceWeights(preferenceRows')
    /\ IF NoWeights(weights')
       THEN /\ response' = Respond(400, "User preferences not found")
            /\ pc' = "done"
            /\ UNCHANGED queries
       ELSE /\ queries' = Append(queries, "options")
            /\ pc' = "await_options"
            /\ UNCHANGED response
    /\ released' = ReleasedAfter(released, pc')
    /\ UNCHANGED <<dbVars, updaters, categoryRequest, reviewStatus, tx, failedQuery, served, other, userOptions, topN, optionCategoryMap,
                   reviewSummaryBeachIds, beachOptions, beachMap, results>>

\* the option-category rows arrive; getBeachOptions sends its first query
OptionsRead ==
    /\ pc = "await_options"
    /\ optionCategoryMap' = GetOptionCategoryMap
    /\ queries' = Append(queries, "review_summary_beaches")
    /\ pc' = "await_review_beaches"
    /\ released' = ReleasedAfter(released, pc')
    /\ UNCHANGED <<dbVars, updaters, categoryRequest, reviewStatus, tx, failedQuery, served, other, userOptions, topN, preferenceRows, weights, reviewSummaryBeachIds,
                   beachOptions, beachMap, results, response>>

\* the beach IDs with review data arrive; the second query is sent
ReviewBeachesRead ==
    /\ pc = "await_review_beaches"
    /\ reviewSummaryBeachIds' = ReviewSummaryBeaches(review_summary)
    /\ queries' = Append(queries, "beach_options")
    /\ pc' = "await_beach_options"
    /\ released' = ReleasedAfter(released, pc')
    /\ UNCHANGED <<dbVars, updaters, categoryRequest, reviewStatus, tx, failedQuery, served, other, userOptions, topN, preferenceRows, weights, optionCategoryMap,
                   beachOptions, beachMap, results, response>>

\* the option rows arrive; the beaches are grouped, scored and sorted; the
\* detail query for the first five is sent
BeachOptionsRead(order) ==
    /\ pc = "await_beach_options"
    /\ beachOptions' = OptionRowsInOrder(
                           BeachOptionRows(reviewSummaryBeachIds, review_summary,
                                           beaches_default_options), order)
    /\ beachMap' = GroupBeachOptionsByBeachId(beachOptions')
    /\ results' = CalculateBeachMatches(userOptions.list, beachMap',
                                        optionCategoryMap, weights)
    /\ IF Len(results') = 0
       THEN /\ response' = RespondData(200, "No beach recommendations found", <<>>)
            /\ pc' = "done"
            /\ UNCHANGED queries
       ELSE /\ queries' = Append(queries, "beaches")
            /\ pc' = "await_details"
            /\ UNCHANGED response
    /\ released' = ReleasedAfter(released, pc')
    /\ UNCHANGED <<dbVars, updaters, categoryRequest, reviewStatus, tx, failedQuery, served, other, userOptions, topN, preferenceRows, weights,
                   optionCategoryMap, reviewSummaryBeachIds>>

\* the detail rows arrive and the response is sent
DetailsRead(order) ==
    /\ pc = "await_details"
    /\ response' = DetailsResponse(
                       Slice(results, TopN),
                       DetailRowsInOrder(
                           BeachDetailRows(Slice(results, TopN), beaches, contents),
                           order))
    /\ pc' = "done"
    /\ released' = ReleasedAfter(released, pc')
    /\ UNCHANGED <<dbVars, updaters, categoryRequest, reviewStatus, tx, failedQuery, served, other, userOptions, topN, preferenceRows, weights, optionCategoryMap,
                   reviewSummaryBeachIds, beachOptions, beachMap, results, queries>>

\* the query the request awaits throws: the catch block answers and the
\* finally block releases the connection
QueryFails ==
    /\ pc \in {"await_preferences", "await_options", "await_review_beaches",
               "await_beach_options", "await_details"}
    /\ failedQuery' = queries[Len(queries)]
    /\ response' = CaughtResponse
    /\ pc' = "done"
    /\ released' = ReleasedAfter(released, pc')
    /\ UNCHANGED <<dbVars, updaters, categoryRequest, reviewStatus, tx, served, other, userOptions, topN,
                   preferenceRows, weights, optionCategoryMap, reviewSummaryBeachIds, beachOptions,
                   beachMap, results, queries>>

(***************************************************************************)
(* A second invocation of BeachRecommendations, running concurrently: its  *)
(* locals are the fields of one record                                     *)
(***************************************************************************)
OtherIdle ==
    [pc |-> "idle", userOptions |-> MissingOptions, weights |-> EmptyMap,
     optionCategoryMap |-> <<>>, reviewSummaryBeachIds |-> {},
     beachMap |-> <<>>, results |-> <<>>, response |-> NoResponse]

\* locals held in module scope, shared by the invocations
LocalsShared(own, shared) == shared

\* the locals an invocation reads are its own
Locals(own, shared) == own

\* the locals of the first request, as the second one would see them if
\* they were shared
SharedLocals ==
    [pc |-> other.pc, userOptions |-> userOptions, weights |-> weights,
     optionCategoryMap |-> optionCategoryMap,
     reviewSummaryBeachIds |-> reviewSummaryBeachIds, beachMap |-> beachMap,
     results |-> results, response |-> other.response]

AfterValidation(r) ==
    IF InvalidOptions(r.userOptions)
    THEN [r EXCEPT !.pc = "done",
                   !.response = Respond(400, "No user options provided")]
    ELSE [r EXCEPT !.pc = "await_preferences"]

AfterWeights(r, w) ==
    IF NoWeights(w)
    THEN [r EXCEPT !.weights = w, !.pc = "done",
                   !.response = Respond(400, "User preferences not found")]
    ELSE [r EXCEPT !.weights = w, !.pc = "await_options"]

AfterScoring(r, bMap, res) ==
    IF Len(res) = 0
    THEN [r EXCEPT !.beachMap = bMap, !.results = res, !.pc = "done",
                   !.response = RespondData(200, "No beach recommendations found",
                                            <<>>)]
    ELSE [r EXCEPT !.beachMap = bMap, !.results = res, !.pc = "await_details"]

AfterOptionRows(r, bMap) ==
    AfterScoring(r, bMap,
                 CalculateBeachMatches(r.userOptions.list, bMap,
                                       r.optionCategoryMap, r.weights))

\* the locals r after the next step of their invocation, the rows of the
\* query it awaits arriving in order
StepOf(r, order) ==
    CASE r.pc = "connected" -> AfterValidation(r)
      [] r.pc = "await_preferences" ->
             AfterWeights(r, GetUserPreferenceWeights(
                                 UserPreferenceRows(user_preferences)))
      [] r.pc = "await_options" ->
             [r EXCEPT !.optionCategoryMap = GetOptionCategoryMap,
                       !.pc = "await_review_beaches"]
      [] r.pc = "await_review_beaches" ->
             [r EXCEPT !.reviewSummaryBeachIds =
                           ReviewSummaryBeaches(review_summary),
                       !.pc = "await_beach_options"]
      [] r.pc = "await_beach_options" ->
             AfterOptionRows(r, GroupBeachOptionsByBeachId(
                                    OptionRowsInOrder(
                                        BeachOptionRows(r.reviewSummaryBeachIds,
                                                        review_summary,
                                                        beaches_default_options),
                                        order)))
      [] r.pc = "await_details" ->
             [r EXCEPT !.pc = "done",
                       !.response =
                           DetailsResponse(
                               Slice(r.results, TopN),
                               DetailRowsInOrder(
                                   BeachDetailRows(Slice(r.results, TopN),
                                                   beaches, contents),
                                   order))]

\* the second request arrives
OtherRequest(body) ==
    /\ other.pc = "idle"
    /\ other' = [other EXCEPT !.pc = "connected", !.userOptions = body]
    /\ UNCHANGED <<dbVars, updaters, categoryRequest, reviewStatus, tx, pc, userOptions, topN,
                   preferenceRows, weights, optionCategoryMap,
                   reviewSummaryBeachIds, beachOptions, beachMap, results, queries,
                   response, failedQuery, released, served>>

\* the second request runs to its next await, or to its answer
OtherStep(order) ==
    /\ other.pc \notin {"idle", "done"}
    /\ other' = StepOf(Locals(other, SharedLocals), order)
    /\ UNCHANGED <<dbVars, updaters, categoryRequest, reviewStatus, tx, pc, userOptions, topN,
                   preferenceRows, weights, optionCategoryMap,
                   reviewSummaryBeachIds, beachOptions, beachMap, results, queries,
                   response, failedQuery, released, served>>

MaxRequests == 2

\* a handler that keeps in module scope what an invocation computed
Kept(value, initial) == value

\* a const of the handler body at the start of the next invocation
Fresh(value, initial) == initial

\* the handler has returned: its locals, its req and res and its connection
\* are those of that invocation; the next request begins without them
Return ==
    /\ pc = "done"
    /\ served < MaxRequests
    /\ served' = served + 1
    /\ pc' = "idle"
    /\ userOptions' = Fresh(userOptions, MissingOptions)
    /\ topN' = Fresh(topN, NoLimit)
    /\ preferenceRows' = Fresh(preferenceRows, <<>>)
    /\ weights' = Fresh(weights, EmptyMap)
    /\ optionCategoryMap' = Fresh(optionCategoryMap, <<>>)
    /\ reviewSummaryBeachIds' = Fresh(reviewSummaryBeachIds, {})
    /\ beachOptions' = Fresh(beachOptions, <<>>)
    /\ beachMap' = Fresh(beachMap, <<>>)
    /\ results' = Fresh(results, <<>>)
    /\ queries' = <<>>
    /\ response' = NoResponse
    /\ failedQuery' = NoQuery
    /\ released' = 0
    /\ UNCHANGED <<dbVars, updaters, categoryRequest, reviewStatus, tx, other>>

(***************************************************************************)
(* updateUserPreferences                                                   *)
(***************************************************************************)
MaxPreferences == 1

Updaters == 1..2

Scores == 0..MaxScore

\* connection: "none" before pool.getConnection(), "held" after it,
\* "released" after connection.release()
Idle == [pc |-> "idle", preferenceScores |-> MissingOptions, i |-> 0,
         existing |-> FALSE, msg |-> "", status |-> 0, connection |-> "none"]

PreferenceLists(n) ==
    UNION {[1..k -> [categoryId : CategoryIds, score : Scores]] : k \in 0..n}

PreferenceBodies ==
    {MissingOptions} \cup {OptionList(l) : l \in PreferenceLists(MaxPreferences)}

\* the request arrives; a body without a preferenceScores array is answered
\* 400, otherwise pool.getConnection() resolves and the loop begins
UpdateUserPreferences(u, body) ==
    /\ updaters[u].pc = "idle"
    /\ updaters' = [updaters EXCEPT ![u] =
           IF body.kind # "array"
           THEN [@ EXCEPT !.pc = "done", !.preferenceScores = body, !.status = 400,
                          !.msg = "Invalid request data"]
           ELSE [@ EXCEPT !.pc = "loop", !.preferenceScores = body, !.i = 1,
                          !.connection = "held"]]
    /\ UNCHANGED <<dbVars, reqVars, categoryRequest, reviewStatus, tx>>

\* SELECT id FROM user_preferences WHERE users_id = ? AND
\* preference_categories_id = ?, for the next preference of the loop
SelectExisting(u) ==
    /\ updaters[u].pc = "loop"
    /\ updaters[u].i <= Len(updaters[u].preferenceScores.list)
    /\ LET preference == updaters[u].preferenceScores.list[updaters[u].i]
       IN updaters' = [updaters EXCEPT ![u] =
              [@ EXCEPT !.pc = "write",
                        !.existing = \E k \in DOMAIN user_preferences :
                            user_preferences[k].cat = preference.categoryId]]
    /\ UNCHANGED <<dbVars, reqVars, categoryRequest, reviewStatus, tx>>

\* existing.length > 0 ? UPDATE ... SET score : INSERT INTO user_preferences
WritePreference(u) ==
    /\ updaters[u].pc = "write"
    /\ LET preference == updaters[u].preferenceScores.list[updaters[u].i]
       IN /\ user_preferences' =
                 IF updaters[u].existing
                 THEN [k \in DOMAIN user_preferences |->
                          IF user_preferences[k].cat = preference.categoryId
                          THEN [user_preferences[k] EXCEPT !.score = preference.score]
                          ELSE user_preferences[k]]
                 ELSE Append(user_preferences,
                             [cat |-> preference.categoryId, score |-> preference.score])
          /\ updaters' = [updaters EXCEPT ![u] =
                 [@ EXCEPT !.pc = "loop", !.i = @ + 1,
                           !.msg = IF updaters[u].existing
                                   THEN "User preferences updated successfully"
                                   ELSE "User preferences created successfully"]]
    /\ UNCHANGED <<review_summary, beaches_default_options, beaches, contents,
                   reviews, option_votes, lastContentId, reqVars, categoryRequest,
                   reviewStatus, tx>>

\* the loop is over: connection.release() and the 200 answer
FinishUpdate(u) ==
    /\ updaters[u].pc = "loop"
    /\ updaters[u].i > Len(updaters[u].preferenceScores.list)
    /\ updaters' = [updaters EXCEPT ![u] =
           [@ EXCEPT !.pc = "done", !.status = 200, !.connection = "released"]]
    /\ UNCHANGED <<dbVars, reqVars, categoryRequest, reviewStatus, tx>>

\* the SELECT, UPDATE or INSERT the request awaits throws: the catch block
\* answers 500; it does not release the connection
UpdateQueryFails(u) ==
    /\ \/ updaters[u].pc = "write"
       \/ /\ updaters[u].pc = "loop"
          /\ updaters[u].i <= Len(updaters[u].preferenceScores.list)
    /\ updaters' = [updaters EXCEPT ![u] =
           [@ EXCEPT !.pc = "done", !.status = 500,
                     !.msg = "Server error updating user preferences"]]
    /\ UNCHANGED <<dbVars, reqVars, categoryRequest, reviewStatus, tx>>

(***************************************************************************)
(* getPreferenceCategories                                                 *)
(***************************************************************************)
NoCategoryRequest == [pc |-> "idle", status |-> 0, connection |-> "none"]

\* the request arrives, pool.getConnection() resolves and the
\* user_preferences query is sent
GetPreferenceCategories ==
    /\ categoryRequest.pc = "idle"
    /\ categoryRequest' = [categoryRequest EXCEPT !.pc = "await_user_preferences",
                                                  !.connection = "held"]
    /\ UNCHANGED <<dbVars, reqVars, updaters, reviewStatus, tx>>

\* userPreferences.length > 0: release and 200; otherwise the users query
CategoryPreferencesRead ==
    /\ categoryRequest.pc = "await_user_preferences"
    /\ categoryRequest' =
           IF Len(user_preferences) > 0
           THEN [pc |-> "done", status |-> 200, connection |-> "released"]
           ELSE [categoryRequest EXCEPT !.pc = "await_personality"]
    /\ UNCHANGED <<dbVars, reqVars, updaters, reviewStatus, tx>>

\* no user_personality_id: release and 404; otherwise the
\* default_preferences query
CategoryPersonalityRead(user_personality_id) ==
    /\ categoryRequest.pc = "await_personality"
    /\ categoryRequest' =
           IF user_personality_id = 0
           THEN [pc |-> "done", status |-> 404, connection |-> "released"]
           ELSE [categoryRequest EXCEPT !.pc = "await_defaults"]
    /\ UNCHANGED <<dbVars, reqVars, updaters, reviewStatus, tx>>

\* release; 404 without default rows, 200 with them
CategoryDefaultsRead(categories) ==
    /\ categoryRequest.pc = "await_defaults"
    /\ categoryRequest' =
           [pc |-> "done", status |-> IF categories = 0 THEN 404 ELSE 200,
            connection |-> "released"]
    /\ UNCHANGED <<dbVars, reqVars, updaters, reviewStatus, tx>>

\* the query the request awaits throws: the catch block answers 500; it
\* does not release the connection
CategoryQueryFails ==
    /\ categoryRequest.pc \in {"await_user_preferences", "await_personality",
                               "await_defaults"}
    /\ categoryRequest' = [categoryRequest EXCEPT !.pc = "done", !.status = 500]
    /\ UNCHANGED <<dbVars, reqVars, updaters, reviewStatus, tx>>

(***************************************************************************)
(* The recommendation request over stored data                             *)
(***************************************************************************)
\* user_preferences with at most one row per category, as sequential
\* updateUserPreferences requests leave it
PreferenceTables ==
    {t \in UNION {[1..k -> [cat : CategoryIds, score : Scores]] :
                     k \in 0..Len(preference_categories)} :
        \A i, j \in DOMAIN t : i < j => t[i].cat < t[j].cat}

Row(b, o) == [beaches_id |-> b, options_id |-> o]

SummaryRow(b, o, n) == [beaches_id |-> b, options_id |-> o, total_votes |-> n]

\* the review_summary rows of options voted for once
Voted(rows) == {SummaryRow(r.beaches_id, r.options_id, 1) : r \in rows}

\* reviews and votes that left the review_summary rows rs: one review of
\* each beach, with a vote for each of the beach's options
ReviewsOf(rs) == {[id |-> r.beaches_id, beaches_id |-> r.beaches_id] : r \in rs}

VotesOf(rs) == {[reviews_id |-> r.beaches_id, options_id |-> r.options_id] : r \in rs}

\* no review handler has answered
NoStatus == 0

\* the rows of the four tables the review handlers write
NoTables == [reviews |-> {}, option_votes |-> {}, review_summary |-> {},
             contents |-> {}]

\* no review handler is running: no connection, no transaction
NoTransaction ==
    [pc |-> "idle", handler |-> "", reviewId |-> 0, beachId |-> 0,
     optionVotes |-> {}, keepExistingFiles |-> TRUE, files |-> 0,
     before |-> NoTables, working |-> NoTables, failedAt |-> "",
     status |-> NoStatus, connection |-> "none"]

InitRequest ==
    /\ pc = "idle"
    /\ userOptions = MissingOptions
    /\ topN = NoLimit
    /\ preferenceRows = <<>>
    /\ weights = EmptyMap
    /\ optionCategoryMap = <<>>
    /\ reviewSummaryBeachIds = {}
    /\ beachOptions = <<>>
    /\ beachMap = <<>>
    /\ results = <<>>
    /\ queries = <<>>
    /\ response = NoResponse
    /\ failedQuery = NoQuery
    /\ released = 0
    /\ served = 0
    /\ other = OtherIdle

Init ==
    /\ user_preferences \in PreferenceTables
    /\ review_summary = Voted({Row(1, 1), Row(1, 3)})
    /\ beaches_default_options =
           {Row(1, 2), Row(2, 1), Row(2, 2), Row(2, 3), Row(3, 2), Row(4, 3)}
    /\ beaches = {1, 2, 3, 4}
    /\ contents = {}
    /\ lastContentId = 0
    /\ reviews = ReviewsOf(review_summary)
    /\ option_votes = VotesOf(review_summary)
    /\ reviewStatus = NoStatus
    /\ tx = NoTransaction
    /\ InitRequest
    /\ updaters = [u \in Updaters |-> Idle]
    /\ categoryRequest = NoCategoryRequest

Next ==
    \/ \E body \in Bodies : Request(body, NoLimit)
    \/ Validate
    \/ PreferencesRead
    \/ OptionsRead
    \/ ReviewBeachesRead
    \/ \E order \in RowOrders : BeachOptionsRead(order)
    \/ \E order \in RowOrders : DetailsRead(order)

Spec == Init /\ [][Next]_vars

(***************************************************************************)
(* Preference updates of one user racing each other and a recommendation   *)
(* request, starting from a user without stored preferences                *)
(***************************************************************************)
InitPrefs ==
    /\ user_preferences = <<>>
    /\ review_summary = Voted({Row(1, 1), Row(1, 3)})
    /\ beaches_default_options =
           {Row(1, 2), Row(2, 1), Row(2, 2), Row(2, 3), Row(3, 2), Row(4, 3)}
    /\ beaches = {1, 2, 3, 4}
    /\ contents = {}
    /\ lastContentId = 0
    /\ reviews = ReviewsOf(review_summary)
    /\ option_votes = VotesOf(review_summary)
    /\ reviewStatus = NoStatus
    /\ tx = NoTransaction
    /\ InitRequest
    /\ updaters = [u \in Updaters |-> Idle]
    /\ categoryRequest = NoCategoryRequest

NextPrefs ==
    \/ \E u \in Updaters, body \in PreferenceBodies : UpdateUserPreferences(u, body)
    \/ \E u \in Updaters : SelectExisting(u)
    \/ \E u \in Updaters : WritePreference(u)
    \/ \E u \in Updaters : FinishUpdate(u)
    \/ Request(OptionList(<<1, 3>>), NoLimit)
    \/ Validate
    \/ PreferencesRead
    \/ OptionsRead
    \/ ReviewBeachesRead
    \/ \E order \in RowOrders : BeachOptionsRead(order)
    \/ \E order \in RowOrders : DetailsRead(order)

SpecPrefs == InitPrefs /\ [][NextPrefs]_vars

(***************************************************************************)
(* Requests over every content of review_summary and                       *)
(* beaches_default_options for a few beaches                               *)
(***************************************************************************)
MaxBeaches == 2

\* the options the beaches of these tables may have: one of Scenery and the
\* one of Facilities
FeatureOptionIds == {1, 3}

FeatureTables == SUBSET {Row(b, o) : b \in 1..MaxBeaches, o \in FeatureOptionIds}

InitData ==
    /\ user_preferences = <<[cat |-> 1, score |-> 2], [cat |-> 2, score |-> 1]>>
    /\ review_summary \in {Voted(t) : t \in FeatureTables}
    /\ beaches_default_options \in FeatureTables
    /\ beaches = 1..MaxBeaches
    /\ contents = {}
    /\ lastContentId = 0
    /\ reviews = ReviewsOf(review_summary)
    /\ option_votes = VotesOf(review_summary)
    /\ reviewStatus = NoStatus
    /\ tx = NoTransaction
    /\ InitRequest
    /\ updaters = [u \in Updaters |-> Idle]
    /\ categoryRequest = NoCategoryRequest

NextData ==
    \/ \E l \in {<<1>>, <<1, 3>>} : Request(OptionList(l), NoLimit)
    \/ Validate
    \/ PreferencesRead
    \/ OptionsRead
    \/ ReviewBeachesRead
    \/ \E order \in RowOrders : BeachOptionsRead(order)
    \/ \E order \in RowOrders : DetailsRead(order)

SpecData == InitData /\ [][NextData]_vars

(***************************************************************************)
(* addReview, editReview and updateReviewSummary: each handler runs in one *)
(* transaction, which other connections see as a whole at its commit       *)
(***************************************************************************)
MaxReviews == 2

MaxFiles == 1

\* insertId of the next row of a table with the rows rows
NextId(rows) ==
    IF rows = {} THEN 1
    ELSE (CHOOSE r \in rows : \A x \in rows : x.id <= r.id).id + 1

\* a summary that is not recounted: every row says one vote
VotesForOne(beachId, optionId, revs, votes) == 1

\* COUNT(*) of the option_votes rows of optionId joined to the reviews of
\* beachId
VotesFor(beachId, optionId, revs, votes) ==
    Cardinality({v \in votes :
                    /\ v.options_id = optionId
                    /\ \E r \in revs : r.id = v.reviews_id /\ r.beaches_id = beachId})

\* DELETE FROM review_summary WHERE beaches_id = beachId, then one row per
\* option voted for in a review of the beach
UpdateReviewSummary(rs, beachId, revs, votes) ==
    {r \in rs : r.beaches_id # beachId}
    \cup
    {SummaryRow(beachId, v.options_id,
                VotesFor(beachId, v.options_id, revs, votes)) :
        v \in {x \in votes : \E r \in revs : /\ r.id = x.reviews_id
                                               /\ r.beaches_id = beachId}}

\* the contents rows of the uploaded files, named after their row IDs
NewContents(files, beachId, reviewId) ==
    {[id |-> lastContentId + k, beaches_id |-> beachId, reviews_id |-> reviewId,
      path |-> Paths[lastContentId + k]] : k \in 1..files}

\* request bodies of addReview; beachId 0 stands for a body without beachId
AddReviewBodies(beachIds, votes, files) ==
    [beachId : beachIds, optionVotes : votes, files : files]

EditReviewBodies(votes, files) ==
    [optionVotes : votes, keepExistingFiles : BOOLEAN, files : files]

AddReview(body) ==
    /\ IF body.beachId = 0
       THEN /\ reviewStatus' = 400
            /\ UNCHANGED <<review_summary, contents, reviews, option_votes,
                           lastContentId>>
       ELSE /\ Cardinality(reviews) < MaxReviews
            /\ lastContentId + body.files <= Len(Paths)
            /\ reviews' = reviews \cup {[id |-> NextId(reviews),
                                         beaches_id |-> body.beachId]}
            /\ option_votes' = option_votes \cup
                   {[reviews_id |-> NextId(reviews), options_id |-> o] :
                       o \in body.optionVotes}
            /\ contents' = contents \cup
                   NewContents(body.files, body.beachId, NextId(reviews))
            /\ lastContentId' = lastContentId + body.files
            /\ review_summary' = UpdateReviewSummary(review_summary, body.beachId,
                                                     reviews', option_votes')
            /\ reviewStatus' = 201
    /\ UNCHANGED <<user_preferences, beaches_default_options, beaches, reqVars,
                   updaters, categoryRequest, tx>>

BeachOfReview(reviewId) == (CHOOSE r \in reviews : r.id = reviewId).beaches_id

EditReview(reviewId, body) ==
    /\ IF \A r \in reviews : r.id # reviewId
       THEN /\ reviewStatus' = 404
            /\ UNCHANGED <<review_summary, contents, option_votes, lastContentId>>
       ELSE /\ lastContentId + body.files <= Len(Paths)
            /\ option_votes' =
                   {v \in option_votes : v.reviews_id # reviewId} \cup
                   {[reviews_id |-> reviewId, options_id |-> o] :
                       o \in body.optionVotes}
            /\ contents' =
                   (IF body.keepExistingFiles THEN contents
                    ELSE {c \in contents : c.reviews_id # reviewId}) \cup
                   NewContents(body.files, BeachOfReview(reviewId), reviewId)
            /\ lastContentId' = lastContentId + body.files
            /\ review_summary' = UpdateReviewSummary(review_summary,
                                                     BeachOfReview(reviewId),
                                                     reviews, option_votes')
            /\ reviewStatus' = 200
    /\ UNCHANGED <<user_preferences, beaches_default_options, beaches, reviews,
                   reqVars, updaters, categoryRequest, tx>>

(***************************************************************************)
(* A recommendation request racing the commits of review handlers          *)
(***************************************************************************)
InitReviews ==
    /\ user_preferences = <<[cat |-> 1, score |-> 2], [cat |-> 2, score |-> 1]>>
    /\ review_summary = Voted({Row(1, 3)})
    /\ beaches_default_options = {Row(1, 1), Row(2, 1), Row(2, 3)}
    /\ beaches = 1..MaxBeaches
    /\ contents = {}
    /\ lastContentId = 0
    /\ reviews = ReviewsOf(review_summary)
    /\ option_votes = VotesOf(review_summary)
    /\ reviewStatus = NoStatus
    /\ tx = NoTransaction
    /\ InitRequest
    /\ updaters = [u \in Updaters |-> Idle]
    /\ categoryRequest = NoCategoryRequest

NextReviews ==
    \/ Request(OptionList(<<1, 3>>), NoLimit)
    \/ Validate
    \/ PreferencesRead
    \/ OptionsRead
    \/ ReviewBeachesRead
    \/ \E order \in RowOrders : BeachOptionsRead(order)
    \/ \E order \in RowOrders : DetailsRead(order)
    \/ \E body \in AddReviewBodies(0..MaxBeaches, SUBSET FeatureOptionIds, {0}) :
           AddReview(body)
    \/ \E reviewId \in 1..MaxReviews,
          body \in EditReviewBodies(SUBSET FeatureOptionIds, {0}) :
           EditReview(reviewId, body)

SpecReviews == InitReviews /\ [][NextReviews]_vars

(***************************************************************************)
(* addReview and editReview statement by statement: the statements of the  *)
(* open transaction act on the rows the handler's connection sees, and the *)
(* other connections read the committed tables until the commit            *)
(***************************************************************************)
\* the committed rows of the tables the review handlers write
Tables ==
    [reviews |-> reviews, option_votes |-> option_votes,
     review_summary |-> review_summary, contents |-> contents]

\* a rollback that undoes nothing: the tables keep what the statements wrote
RolledBackNothing(committed, working) == working

\* connection.rollback(): the tables keep their committed rows
RolledBack(committed, working) == committed

\* the tables after the transaction ended with the rows t
Stored(t) ==
    /\ reviews' = t.reviews
    /\ option_votes' = t.option_votes
    /\ review_summary' = t.review_summary
    /\ contents' = t.contents

\* the positions of a handler between beginTransaction and commit
OpenStates ==
    {"begun", "review_written", "votes_written", "contents_written",
     "summary_deleted", "summary_rebuilt"}

\* addReview up to beginTransaction
BeginAddReview(body) ==
    /\ tx.pc = "idle"
    /\ IF body.beachId = 0
       THEN tx' = [NoTransaction EXCEPT !.pc = "done", !.handler = "addReview",
                                        !.status = 400]
       ELSE /\ Cardinality(reviews) < MaxReviews
            /\ lastContentId + body.files <= Len(Paths)
            /\ tx' = [NoTransaction EXCEPT !.pc = "begun",
                                           !.handler = "addReview",
                                           !.beachId = body.beachId,
                                           !.optionVotes = body.optionVotes,
                                           !.files = body.files,
                                           !.before = Tables,
                                           !.working = Tables,
                                           !.connection = "held"]
    /\ UNCHANGED <<dbVars, reqVars, updaters, categoryRequest, reviewStatus>>

\* editReview up to beginTransaction
BeginEditReview(reviewId, body) ==
    /\ tx.pc = "idle"
    /\ lastContentId + body.files <= Len(Paths)
    /\ tx' = [NoTransaction EXCEPT !.pc = "begun",
                                   !.handler = "editReview",
                                   !.reviewId = reviewId,
                                   !.optionVotes = body.optionVotes,
                                   !.keepExistingFiles = body.keepExistingFiles,
                                   !.files = body.files,
                                   !.before = Tables,
                                   !.working = Tables,
                                   !.connection = "held"]
    /\ UNCHANGED <<dbVars, reqVars, updaters, categoryRequest, reviewStatus>>

\* INSERT INTO reviews
InsertReview ==
    /\ tx.pc = "begun"
    /\ tx.handler = "addReview"
    /\ tx' = [tx EXCEPT !.pc = "review_written",
                        !.reviewId = NextId(tx.working.reviews),
                        !.working.reviews =
                            @ \cup {[id |-> NextId(tx.working.reviews),
                                     beaches_id |-> tx.beachId]}]
    /\ UNCHANGED <<dbVars, reqVars, updaters, categoryRequest, reviewStatus>>

\* SELECT beaches_id FROM reviews WHERE id = ?, the 404 of a missing review,
\* and UPDATE reviews, which changes no column the recommendation reads
SelectReview ==
    /\ tx.pc = "begun"
    /\ tx.handler = "editReview"
    /\ IF \A r \in tx.working.reviews : r.id # tx.reviewId
       THEN /\ Stored(RolledBack(Tables, tx.working))
            /\ tx' = [tx EXCEPT !.pc = "done", !.status = 404,
                                !.connection = "released"]
       ELSE /\ tx' = [tx EXCEPT !.pc = "review_written",
                                !.beachId = (CHOOSE r \in tx.working.reviews :
                                                r.id = tx.reviewId).beaches_id]
            /\ UNCHANGED <<reviews, option_votes, review_summary, contents>>
    /\ UNCHANGED <<user_preferences, beaches_default_options, beaches,
                   lastContentId, reqVars, updaters, categoryRequest,
                   reviewStatus>>

\* editReview's DELETE FROM option_votes, and the INSERT of each optionVotes
\* entry
WriteVotes ==
    /\ tx.pc = "review_written"
    /\ tx' = [tx EXCEPT !.pc = "votes_written",
                        !.working.option_votes =
                            (IF tx.handler = "editReview"
                             THEN {v \in @ : v.reviews_id # tx.reviewId}
                             ELSE @)
                            \cup {[reviews_id |-> tx.reviewId, options_id |-> o] :
                                     o \in tx.optionVotes}]
    /\ UNCHANGED <<dbVars, reqVars, updaters, categoryRequest, reviewStatus>>

\* the contents rows: editReview deletes the review's rows unless it keeps
\* them, and both handlers insert one row per uploaded file; the
\* AUTO_INCREMENT value a statement took is not given back
WriteContents ==
    /\ tx.pc = "votes_written"
    /\ tx' = [tx EXCEPT !.pc = "contents_written",
                        !.working.contents =
                            (IF tx.keepExistingFiles THEN @
                             ELSE {c \in @ : c.reviews_id # tx.reviewId})
                            \cup NewContents(tx.files, tx.beachId, tx.reviewId)]
    /\ lastContentId' = lastContentId + tx.files
    /\ UNCHANGED <<user_preferences, review_summary, beaches_default_options,
                   beaches, contents, reviews, option_votes, reqVars, updaters,
                   categoryRequest, reviewStatus>>

\* updateReviewSummary: DELETE FROM review_summary WHERE beaches_id = ?
DeleteSummary ==
    /\ tx.pc = "contents_written"
    /\ tx' = [tx EXCEPT !.pc = "summary_deleted",
                        !.working.review_summary =
                            {r \in @ : r.beaches_id # tx.beachId}]
    /\ UNCHANGED <<dbVars, reqVars, updaters, categoryRequest, reviewStatus>>

\* updateReviewSummary: the counting SELECT and the INSERT of each of its rows
InsertSummary ==
    /\ tx.pc = "summary_deleted"
    /\ tx' = [tx EXCEPT !.pc = "summary_rebuilt",
                        !.working.review_summary =
                            UpdateReviewSummary(@, tx.beachId, tx.working.reviews,
                                                tx.working.option_votes)]
    /\ UNCHANGED <<dbVars, reqVars, updaters, categoryRequest, reviewStatus>>

\* connection.commit(), connection.release() and the answer
Commit ==
    /\ tx.pc = "summary_rebuilt"
    /\ Stored(tx.working)
    /\ tx' = [tx EXCEPT !.pc = "done",
                        !.status = IF tx.handler = "addReview" THEN 201 ELSE 200,
                        !.connection = "released"]
    /\ UNCHANGED <<user_preferences, beaches_default_options, beaches,
                   lastContentId, reqVars, updaters, categoryRequest,
                   reviewStatus>>

\* the statement the handler awaits throws: the inner catch rolls back,
\* releases and rethrows, and the outer catch answers 500
StatementFails ==
    /\ tx.pc \in OpenStates
    /\ Stored(RolledBack(Tables, tx.working))
    /\ tx' = [tx EXCEPT !.pc = "done", !.failedAt = tx.pc, !.status = 500,
                        !.connection = "released"]
    /\ UNCHANGED <<user_preferences, beaches_default_options, beaches,
                   lastContentId, reqVars, updaters, categoryRequest,
                   reviewStatus>>

\* the handler has answered; the next call starts with its own locals
ReviewReturn ==
    /\ tx.pc = "done"
    /\ tx' = NoTransaction
    /\ UNCHANGED <<dbVars, reqVars, updaters, categoryRequest, reviewStatus>>

InitTransactions == InitReviews

NextTransactions ==
    \/ Request(OptionList(<<1, 3>>), NoLimit)
    \/ Validate
    \/ PreferencesRead
    \/ OptionsRead
    \/ ReviewBeachesRead
    \/ BeachOptionsRead("asc")
    \/ DetailsRead("asc")
    \/ \E body \in AddReviewBodies(0..MaxBeaches, {{}, FeatureOptionIds},
                                   0..MaxFiles) : BeginAddReview(body)
    \/ \E id \in 1..MaxReviews :
           \E body \in EditReviewBodies({{}, FeatureOptionIds}, {0}) :
               BeginEditReview(id, body)
    \/ InsertReview
    \/ SelectReview
    \/ WriteVotes
    \/ WriteContents
    \/ DeleteSummary
    \/ InsertSummary
    \/ Commit
    \/ StatementFails
    \/ ReviewReturn

SpecTransactions == InitTransactions /\ [][NextTransactions]_vars

(***************************************************************************)
(* Requests over more beaches than the response holds, with and without a  *)
(* topN in the body, while reviews with photos are added and edited        *)
(***************************************************************************)
ManyBeaches == 7

InitDetails ==
    /\ user_preferences = <<[cat |-> 1, score |-> 2], [cat |-> 2, score |-> 1]>>
    /\ review_summary = Voted({Row(1, 1), Row(1, 3)})
    /\ beaches_default_options =
           {Row(1, 2), Row(2, 1), Row(2, 2), Row(2, 3), Row(3, 2), Row(4, 3),
            Row(5, 1), Row(6, 1), Row(6, 3), Row(7, 2), Row(7, 3)}
    /\ beaches \in {1..ManyBeaches, (1..ManyBeaches) \ {2}}
    /\ contents = {}
    /\ lastContentId = 0
    /\ reviews = ReviewsOf(review_summary)
    /\ option_votes = VotesOf(review_summary)
    /\ reviewStatus = NoStatus
    /\ tx = NoTransaction
    /\ InitRequest
    /\ updaters = [u \in Updaters |-> Idle]
    /\ categoryRequest = NoCategoryRequest

NextDetails ==
    \/ \E l \in {<<1>>, <<1, 3>>}, limit \in {NoLimit, 2} :
           Request(OptionList(l), limit)
    \/ Validate
    \/ PreferencesRead
    \/ OptionsRead
    \/ ReviewBeachesRead
    \/ \E order \in RowOrders : BeachOptionsRead(order)
    \/ \E order \in RowOrders : DetailsRead(order)
    \/ \E body \in AddReviewBodies({1}, {{1, 3}}, {MaxFiles}) : AddReview(body)
    \/ \E reviewId \in 1..MaxReviews,
          body \in EditReviewBodies({{1, 3}}, 0..MaxFiles) :
           EditReview(reviewId, body)

SpecDetails == InitDetails /\ [][NextDetails]_vars

(***************************************************************************)
(* Requests whose queries may throw, over filled and over empty option     *)
(* tables, with and without a beach the detail query does not return       *)
(***************************************************************************)
InitFaults ==
    /\ user_preferences \in {<<>>, <<[cat |-> 1, score |-> 2]>>}
    /\ review_summary \in {{}, Voted({Row(1, 1), Row(1, 3)})}
    /\ beaches_default_options \in
           {{}, {Row(1, 2), Row(2, 1), Row(2, 2), Row(2, 3), Row(3, 2), Row(4, 3)}}
    /\ beaches \in {{1, 2, 3, 4}, {1, 3, 4}}
    /\ contents = {}
    /\ lastContentId = 0
    /\ reviews = ReviewsOf(review_summary)
    /\ option_votes = VotesOf(review_summary)
    /\ reviewStatus = NoStatus
    /\ tx = NoTransaction
    /\ InitRequest
    /\ updaters = [u \in Updaters |-> Idle]
    /\ categoryRequest = NoCategoryRequest

NextFaults ==
    \/ \E body \in {MissingOptions, NotAnArray, OptionList(<<>>), OptionList(<<1>>),
                     OptionList(<<1, 3>>)} : Request(body, NoLimit)
    \/ Validate
    \/ PreferencesRead
    \/ OptionsRead
    \/ ReviewBeachesRead
    \/ \E order \in RowOrders : BeachOptionsRead(order)
    \/ \E order \in RowOrders : DetailsRead(order)
    \/ QueryFails
    \/ Return
    \/ AddReview([beachId |-> 2, optionVotes |-> {1}, files |-> 0])

SpecFaults == InitFaults /\ [][NextFaults]_vars

(***************************************************************************)
(* The handlers of the preference pages, whose queries may throw           *)
(***************************************************************************)
InitPool ==
    /\ user_preferences \in {<<>>, <<[cat |-> 1, score |-> 2]>>}
    /\ review_summary = {}
    /\ beaches_default_options = {}
    /\ beaches = {}
    /\ contents = {}
    /\ lastContentId = 0
    /\ reviews = {}
    /\ option_votes = {}
    /\ reviewStatus = NoStatus
    /\ tx = NoTransaction
    /\ InitRequest
    /\ updaters = [u \in Updaters |-> Idle]
    /\ categoryRequest = NoCategoryRequest

NextPool ==
    \/ \E u \in Updaters, body \in PreferenceBodies : UpdateUserPreferences(u, body)
    \/ \E u \in Updaters : SelectExisting(u)
    \/ \E u \in Updaters : WritePreference(u)
    \/ \E u \in Updaters : FinishUpdate(u)
    \/ \E u \in Updaters : UpdateQueryFails(u)
    \/ GetPreferenceCategories
    \/ CategoryPreferencesRead
    \/ \E user_personality_id \in 0..1 : CategoryPersonalityRead(user_personality_id)
    \/ \E categories \in {0, Len(preference_categories)} :
           CategoryDefaultsRead(categories)
    \/ CategoryQueryFails

SpecPool == InitPool /\ [][NextPool]_vars

(***************************************************************************)
(* Two requests of one user running concurrently over unchanged tables     *)
(***************************************************************************)
InitTwo ==
    /\ user_preferences \in
           {<<>>, <<[cat |-> 1, score |-> 2], [cat |-> 2, score |-> 1]>>}
    /\ review_summary = Voted({Row(1, 1), Row(1, 3)})
    /\ beaches_default_options =
           {Row(1, 2), Row(2, 1), Row(2, 2), Row(2, 3), Row(3, 2), Row(4, 3)}
    /\ beaches = {1, 2, 3, 4}
    /\ contents = {}
    /\ lastContentId = 0
    /\ reviews = ReviewsOf(review_summary)
    /\ option_votes = VotesOf(review_summary)
    /\ reviewStatus = NoStatus
    /\ tx = NoTransaction
    /\ InitRequest
    /\ updaters = [u \in Updaters |-> Idle]
    /\ categoryRequest = NoCategoryRequest

TwoBodies == {OptionList(<<>>), OptionList(<<1>>), OptionList(<<1, 3>>),
              OptionList(<<2, 3>>)}

NextTwo ==
    \/ \E body \in TwoBodies : Request(body, NoLimit)
    \/ Validate
    \/ PreferencesRead
    \/ OptionsRead
    \/ ReviewBeachesRead
    \/ \E order \in RowOrders : BeachOptionsRead(order)
    \/ \E order \in RowOrders : DetailsRead(order)
    \/ \E body \in TwoBodies : OtherRequest(body)
    \/ \E order \in RowOrders : OtherStep(order)

SpecTwo == InitTwo /\ [][NextTwo]_vars

(***************************************************************************)
(* Properties of the recommendation request                                *)
(***************************************************************************)
Range(f) == {f[x] : x \in DOMAIN f}

\* the request has scored the beaches
Scored == results # <<>>

ResultOf(b) == CHOOSE r \in Range(results) : r.beach_id = b

RECURSIVE SumWeights(_, _)
SumWeights(w, names) ==
    IF names = {} THEN FZero
    ELSE LET n == CHOOSE x \in names : TRUE
         IN FAdd(SumWeights(w, names \ {n}), w[n])

\* |x - 1| <= 1e-9 for a double x: below 1 the doubles are 2^-53 apart and x
\* is at most 9007199 of them away, from 1 on they are 2^-52 apart and x is at
\* most 4503599 of them away
NearOne(x) ==
    /\ x.k = "pos"
    /\ \/ x.e = -53 /\ x.hi = 2^25 - 1 /\ W28 - x.lo <= 9007199
       \/ x.e = -52 /\ x.hi = 2^24 /\ x.lo <= 4503599

\* C2: from a non-empty collection of rows with positive raw scores,
\* getUserPreferenceWeights maps each row's category to rawScore / sum of all
\* raw scores, and the weights of the mapping sum to 1 (within 1e-9)
C2_WeightsSumToOne ==
    (preferenceRows # <<>> /\ \A i \in DOMAIN preferenceRows : preferenceRows[i].rank > 0) =>
        /\ \A i \in DOMAIN preferenceRows :
               /\ preferenceRows[i].name \in DOMAIN weights
               /\ weights[preferenceRows[i].name]
                      = FDiv(FromInt(preferenceRows[i].rank),
                             FromInt(SumRank(preferenceRows, Len(preferenceRows))))
        /\ NearOne(SumWeights(weights, DOMAIN weights))

\* C3: when the stored scores are all zero, the weights are the empty mapping
\* and the request is answered like one without preferences; no beach is scored
C3_AllZeroIsNotFound ==
    (preferenceRows # <<>> /\ \A i \in DOMAIN preferenceRows : preferenceRows[i].rank = 0) =>
        /\ DOMAIN weights = {}
        /\ pc = "done"
        /\ response = Respond(400, "User preferences not found")
        /\ results = <<>>
\* C4: a user without stored category scores is answered 400 'User
\* preferences not found' (the selection being a non-empty list), no beach is
\* scored and no data is returned
C4_NoPreferencesNotFound ==
    user_preferences = <<>> =>
        /\ results = <<>>
        /\ \A q \in DOMAIN queries : queries[q] = "user_preferences"
        /\ ~response.hasData
        /\ (pc = "done" /\ userOptions.kind = "array" /\ userOptions.list # <<>>) =>
               response = Respond(400, "User preferences not found")

C4_Witness ==
    /\ user_preferences = <<>>
    /\ pc = "done"
    /\ userOptions = OptionList(<<1, 3>>)
    /\ queries = <<"user_preferences">>
    /\ response = Respond(400, "User preferences not found")

\* C5: a selection that is missing, no list or empty is answered 400 'No user
\* options provided' before any query is sent, whatever the user has stored
C5_NoOptionsBeforeAnyRead ==
    (pc # "idle" /\ (userOptions.kind # "array" \/ userOptions.list = <<>>)) =>
        /\ queries = <<>>
        /\ results = <<>>
        /\ pc \in {"connected", "done"}
        /\ pc = "done" => response = Respond(400, "No user options provided")

C5_Witness ==
    /\ pc = "done"
    /\ userOptions = OptionList(<<>>)
    /\ Len(user_preferences) = Len(preference_categories)
    /\ \A i \in DOMAIN user_preferences : user_preferences[i].score > 0
    /\ queries = <<>>
    /\ response = Respond(400, "No user options provided")

\* the selected options of a category, as a set
SelectedOf(c) ==
    {o \in Range(userOptions.list) :
        o \in DOMAIN optionCategoryMap /\ optionCategoryMap[o] = c}

\* the categories that count: at least one selected option and a weight > 0
Counted(c) ==
    SelectedOf(c) # {} /\ c \in DOMAIN weights /\ weights[c].k = "pos"

RawScore(c) ==
    preferenceRows[CHOOSE i \in DOMAIN preferenceRows : preferenceRows[i].name = c].rank

RECURSIVE Factorial(_)
Factorial(n) == IF n = 0 THEN 1 ELSE n * Factorial(n - 1)

\* sum over the first i categories of f(c), a category that does not count
\* adding nothing
RECURSIVE SumCounted(_, _)
SumCounted(f(_), i) ==
    IF i = 0 THEN 0
    ELSE SumCounted(f, i - 1)
         + (IF Counted(preference_categories[i]) THEN f(preference_categories[i]) ELSE 0)

\* round-half-up(100 * S) of a beach with option set B in exact arithmetic, S
\* being the fraction N / D with the weights rawScore / sum(rawScores)
ExactPercentage(B) ==
    LET K == Factorial(Len(userOptions.list))
        part(c) == Cardinality(SelectedOf(c) \cap B)
                       * (K \div Cardinality(SelectedOf(c))) * RawScore(c)
        whole(c) == K * RawScore(c)
        N == SumCounted(part, Len(preference_categories))
        D == SumCounted(whole, Len(preference_categories))
    IN IF D = 0 THEN 0 ELSE (200 * N + D) \div (2 * D)

\* the scorer on {1,2,3} at weight 0.6 and {4} at weight 0.4 against {1,4}
ExampleSixty ==
    MatchPercentage(<<[category |-> "Scenery", options |-> <<1, 2, 3>>],
                      [category |-> "Facilities", options |-> <<4>>]>>,
                    {1, 4},
                    <<"Scenery", "Scenery", "Scenery", "Facilities">>,
                    [c \in {"Scenery", "Facilities"} |->
                        IF c = "Scenery" THEN FDiv(FromInt(3), FromInt(5))
                        ELSE FDiv(FromInt(2), FromInt(5))])

NoDuplicates(l) == \A i, j \in DOMAIN l : l[i] = l[j] => i = j

\* C6: every beach's match_percentage is round-half-up(100 * S), S the
\* weighted mean of |U_c intersect B| / |U_c| over the categories with a
\* selected option and a positive weight (0 without such a category); {1,2,3}
\* at weight 0.6 and {4} at weight 0.4 against {1,4} gives 60.  Stated for the
\* selections without a repeated ID.
C6_RoundHalfUpOfS ==
    /\ NoDuplicates(userOptions.list) =>
           \A k \in DOMAIN results :
               results[k].match_percentage
                   = ExactPercentage(beachMap[results[k].beach_id])
    /\ ExampleSixty = 60

\* C7: adding an option the user did not select to a beach's feature set, or
\* removing it, leaves the beach's match_percentage as it is
C7_UnselectedOptionsIrrelevant ==
    LET entries == UserOptionsByCategory(userOptions.list, optionCategoryMap)
        score(B) == MatchPercentage(entries, B, optionCategoryMap, weights)
    IN \A k \in DOMAIN results :
           \A o \in RequestOptionIds \ Range(userOptions.list) :
               /\ score(beachMap[results[k].beach_id] \cup {o})
                      = results[k].match_percentage
               /\ score(beachMap[results[k].beach_id] \ {o})
                      = results[k].match_percentage

\* a beach scored strictly between 0 and 100 that holds, in a category with a
\* selected option and a positive weight, an option the user did not select
C7_Witness ==
    /\ Scored
    /\ \E k \in DOMAIN results :
           /\ results[k].match_percentage \in 1..99
           /\ \E o \in beachMap[results[k].beach_id] \ Range(userOptions.list) :
                  o \in DOMAIN optionCategoryMap /\ Counted(optionCategoryMap[o])

\* the scorer on {1,2} in a category of weight 1.0 against {1,2,3}
ExampleHundred ==
    MatchPercentage(<<[category |-> "Scenery", options |-> <<1, 2>>]>>,
                    {1, 2, 3}, GetOptionCategoryMap,
                    [c \in {"Scenery"} |-> FromInt(1)])

\* C8: a beach that holds every option selected in the categories with a
\* positive weight (there being one) scores 100, whatever other categories
\* carry a weight; {1,2} in a category of weight 1.0 against {1,2,3} gives 100
C8_FullMatchIsHundred ==
    /\ \A k \in DOMAIN results :
           LET B == beachMap[results[k].beach_id]
               counting == {o \in Range(userOptions.list) :
                               /\ o \in DOMAIN optionCategoryMap
                               /\ Counted(optionCategoryMap[o])}
           IN (counting # {} /\ counting \subseteq B) =>
                  results[k].match_percentage = 100
    /\ ExampleHundred = 100

\* the beach with {1,2,3} scores 100 for the selection <<1,2>>, Facilities and
\* Activities carrying a positive weight and no selected option
C8_Witness ==
    /\ Scored
    /\ userOptions.list = <<1, 2>>
    /\ DOMAIN weights = Range(preference_categories)
    /\ \A c \in DOMAIN weights : weights[c].k = "pos"
    /\ beachMap[2] = {1, 2, 3}
    /\ ResultOf(2).match_percentage = 100
    /\ ResultOf(3).match_percentage = 50

\* C9: options of a category without a weight count for nothing: selecting
\* one more of them, or leaving those selected out, changes no result
C9_UnweightedCategoriesIgnored ==
    Scored =>
        LET weighted(o) == o \in DOMAIN optionCategoryMap
                               => optionCategoryMap[o] \in DOMAIN weights
        IN /\ results = CalculateBeachMatches(
                            SelectSeq(userOptions.list, weighted),
                            beachMap, optionCategoryMap, weights)
           /\ \A o \in DOMAIN optionCategoryMap :
                  optionCategoryMap[o] \notin DOMAIN weights =>
                      /\ results = CalculateBeachMatches(
                                       Append(userOptions.list, o),
                                       beachMap, optionCategoryMap, weights)
                      /\ results = CalculateBeachMatches(
                                       <<o>> \o userOptions.list,
                                       beachMap, optionCategoryMap, weights)

\* Facilities has no weight and its option 3 is selected next to option 1:
\* the beach with only option 3 scores 0, the one with 1 and 3 scores 100
C9_Witness ==
    /\ Scored
    /\ userOptions.list = <<3, 1>>
    /\ "Facilities" \notin DOMAIN weights
    /\ "Scenery" \in DOMAIN weights /\ weights["Scenery"].k = "pos"
    /\ ResultOf(1).match_percentage = 100
    /\ ResultOf(4).match_percentage = 0

\* C10: a selected option ID the option-category index does not hold is
\* dropped: the results are those of the selection without such IDs, and the
\* request is answered 200
C10_UnknownOptionsDropped ==
    Scored =>
        /\ results = CalculateBeachMatches(
                         SelectSeq(userOptions.list,
                                   LAMBDA o : o \in DOMAIN optionCategoryMap),
                         beachMap, optionCategoryMap, weights)
        /\ pc = "done" => response.status = 200

\* the unknown ID 4 selected with the options 1 and 2: the beach with 1 and 2
\* scores 100, the beach with only 2 scores 50
C10_Witness ==
    /\ pc = "done"
    /\ response.status = 200
    /\ userOptions.list = <<4, 1, 2>>
    /\ 4 \notin DOMAIN optionCategoryMap
    /\ DOMAIN weights = {"Scenery"}
    /\ ResultOf(2).match_percentage = 100
    /\ ResultOf(3).match_percentage = 50
\* a list without its repeated elements, the first occurrence kept
RECURSIVE Dedup(_)
Dedup(l) ==
    IF l = <<>> THEN <<>>
    ELSE LET front == Dedup(SubSeq(l, 1, Len(l) - 1))
         IN IF l[Len(l)] \in Range(front) THEN front
            ELSE Append(front, l[Len(l)])

\* C11: the selection is treated as a set: the results are those of the
\* selection without its repeated IDs, and the request is answered 200
C11_SelectionIsASet ==
    Scored =>
        /\ results = CalculateBeachMatches(Dedup(userOptions.list), beachMap,
                                           optionCategoryMap, weights)
        /\ pc = "done" => response.status = 200

\* the request has grouped the option rows into the feature map
Grouped == pc = "await_details" \/ (pc = "done" /\ response.hasData)

OptionsIn(table, b) == {r.options_id : r \in {x \in table : x.beaches_id = b}}

\* C12: over one snapshot of the tables, the feature map gives a beach with
\* review_summary rows exactly the option IDs of those rows, a beach without
\* them exactly the option IDs of its beaches_default_options rows, and no
\* entry to a beach without rows
C12_FeatureSource ==
    Grouped =>
        \A b \in 1..MaxBeaches :
            /\ OptionsIn(review_summary, b) # {}
                   => /\ b \in DOMAIN beachMap
                      /\ beachMap[b] = OptionsIn(review_summary, b)
            /\ OptionsIn(review_summary, b) = {}
               /\ OptionsIn(beaches_default_options, b) # {}
                   => /\ b \in DOMAIN beachMap
                      /\ beachMap[b] = OptionsIn(beaches_default_options, b)
            /\ OptionsIn(review_summary, b) = {}
               /\ OptionsIn(beaches_default_options, b) = {}
                   => b \notin DOMAIN beachMap

\* a feature map with a beach described by its review rows, which differ
\* from its default rows, and a beach described by its default rows
C12_Witness ==
    /\ Grouped
    /\ \E b, c \in 1..MaxBeaches :
           /\ OptionsIn(review_summary, b) # {}
           /\ OptionsIn(beaches_default_options, b) # {}
           /\ OptionsIn(beaches_default_options, b) # OptionsIn(review_summary, b)
           /\ OptionsIn(review_summary, c) = {}
           /\ c \in DOMAIN beachMap
           /\ beachMap[c] = OptionsIn(beaches_default_options, c)

\* beaches_default_options with the rows of beach b replaced by those of the
\* option set D
WithDefaults(b, D) ==
    {r \in beaches_default_options : r.beaches_id # b} \cup {Row(b, o) : o \in D}

\* the results of the request over the tables rs and bdo
ResultsOver(rs, bdo) ==
    CalculateBeachMatches(
        userOptions.list,
        GroupBeachOptionsByBeachId(
            OptionRowsInOrder(BeachOptionRows(ReviewSummaryBeaches(rs), rs, bdo),
                              "asc")),
        optionCategoryMap, weights)

PercentageIn(rs, b) ==
    {rs[k].match_percentage : k \in {j \in DOMAIN rs : rs[j].beach_id = b}}

\* C13: a beach with review_summary rows gets the same match_percentage
\* whatever its beaches_default_options rows are
C13_DefaultsIgnoredWhenReviewed ==
    Scored =>
        \A b \in ReviewSummaryBeaches(review_summary) :
            \A D \in SUBSET FeatureOptionIds :
                PercentageIn(ResultsOver(review_summary, WithDefaults(b, D)), b)
                    = PercentageIn(results, b)

\* a scored beach with review rows whose default rows alone would give it
\* another percentage
C13_Witness ==
    /\ Scored
    /\ \E b \in ReviewSummaryBeaches(review_summary) :
           /\ OptionsIn(beaches_default_options, b) # {}
           /\ PercentageIn(ResultsOver({}, beaches_default_options), b)
                  # PercentageIn(results, b)
           /\ PercentageIn(results, b) # {}

\* C14: the rows a request groups into its feature map give each beach
\* option IDs of one source only, review_summary or beaches_default_options,
\* also when review handlers commit between the two queries of getBeachOptions
C14_SingleSourcePerBeach ==
    \A i, j \in DOMAIN beachOptions :
        beachOptions[i].beaches_id = beachOptions[j].beaches_id
            => beachOptions[i].source = beachOptions[j].source

\* a feature map built after a commit between the two queries: the first
\* query saw review rows of a beach, the second saw none, and the beach's
\* default rows stayed out
C14_Witness ==
    /\ Grouped
    /\ \E b \in reviewSummaryBeachIds :
           /\ b \notin DOMAIN beachMap
           /\ OptionsIn(beaches_default_options, b) # {}
    /\ \E i, j \in DOMAIN beachOptions :
           /\ i # j
           /\ beachOptions[i].beaches_id = beachOptions[j].beaches_id

\* C15: calculateBeachMatches returns one BeachMatch for each key of the
\* feature map: none missing, none twice, none of another beach
C15_OneMatchPerBeach ==
    Grouped =>
        /\ {results[k].beach_id : k \in DOMAIN results} = DOMAIN beachMap
        /\ Len(results) = Cardinality(DOMAIN beachMap)

\* a feature map of several beaches, one of which matches nothing selected
C15_Witness ==
    /\ Grouped
    /\ Cardinality(DOMAIN beachMap) >= MaxBeaches
    /\ \E k \in DOMAIN results : results[k].match_percentage = 0
    /\ \E k \in DOMAIN results : results[k].match_percentage > 0

\* the request was answered with enriched records
Answered == pc = "done" /\ response.status = 200 /\ response.data # <<>>

\* C16: the list calculateBeachMatches returns and the list of the response
\* are in non-increasing order of match_percentage
C16_NonIncreasing ==
    /\ \A k \in 1..(Len(results) - 1) :
           results[k].match_percentage >= results[k + 1].match_percentage
    /\ \A k \in 1..(Len(response.data) - 1) :
           response.data[k].match_percentage
               >= response.data[k + 1].match_percentage

\* an answered request whose first and last record differ in percentage
C16_Witness ==
    /\ Answered
    /\ response.data[1].match_percentage
           > response.data[Len(response.data)].match_percentage
    /\ results[Len(results)].match_percentage
           < response.data[Len(response.data)].match_percentage

\* C17: beaches with equal match_percentage are listed in ascending order
\* of beach ID, and a tied beach left out of the response has a larger ID
\* than the tied beaches in it, in whatever order the option rows were read
C17_TiesByAscendingId ==
    /\ \A k \in 1..(Len(results) - 1) :
           results[k].match_percentage = results[k + 1].match_percentage
               => results[k].beach_id < results[k + 1].beach_id
    /\ \A k \in DOMAIN response.data :
           \A j \in DOMAIN results :
               /\ results[j].match_percentage = response.data[k].match_percentage
               /\ \A i \in DOMAIN response.data :
                      response.data[i].beach_id # results[j].beach_id
               => response.data[k].beach_id < results[j].beach_id

\* an answered request whose option rows were read in descending order and
\* whose last record is tied with a beach that was cut
C17_Witness ==
    /\ Answered
    /\ beachOptions[1].beaches_id > beachOptions[Len(beachOptions)].beaches_id
    /\ Len(results) > Len(response.data)
    /\ results[Len(response.data) + 1].match_percentage
           = response.data[Len(response.data)].match_percentage

\* the limit of a request: its topN, five without one
Limit == IF topN = NoLimit THEN 5 ELSE topN

\* C18: the response holds the first topN records of the sorted list, topN
\* being the limit the caller supplied or five: min(topN, number of scored
\* beaches) records, those of the beaches at the head of the list
C18_TruncatedToTopN ==
    Answered =>
        /\ Len(response.data) = (IF Len(results) < Limit THEN Len(results)
                                 ELSE Limit)
        /\ \A k \in DOMAIN response.data :
               response.data[k].beach_id = results[k].beach_id

\* C19: a request that scored beaches is answered with one record for each
\* of its first five matches, in their order and with their beach_id and
\* match_percentage, also when the detail query returns no row for a beach
C19_EnrichmentKeepsMatches ==
    (pc = "done" /\ Scored) =>
        /\ response.status = 200
        /\ Len(response.data) = Len(Slice(results, TopN))
        /\ \A k \in DOMAIN response.data :
               /\ response.data[k].beach_id = results[k].beach_id
               /\ response.data[k].match_percentage = results[k].match_percentage

\* the response to the request at hand when its detail rows arrive in order
ResponseIn(order) ==
    DetailsResponse(
        Slice(results, TopN),
        DetailRowsInOrder(BeachDetailRows(Slice(results, TopN), beaches, contents),
                          order))

\* the results of the request at hand when its option rows arrive in order
ResultsIn(order) ==
    CalculateBeachMatches(
        userOptions.list,
        GroupBeachOptionsByBeachId(
            OptionRowsInOrder(BeachOptionRows(reviewSummaryBeachIds, review_summary,
                                              beaches_default_options), order)),
        optionCategoryMap, weights)

\* C20: over the same stored data and selection a request gives the same
\* output in whatever order its queries return their rows
C20_SameDataSameOutput ==
    /\ pc = "await_beach_options"
           => \A o1, o2 \in RowOrders : ResultsIn(o1) = ResultsIn(o2)
    /\ pc = "await_details"
           => \A o1, o2 \in RowOrders : ResponseIn(o1) = ResponseIn(o2)

\* no selected option is of a category with a positive weight
NothingWeighted ==
    \A k \in DOMAIN userOptions.list :
        userOptions.list[k] \in DOMAIN optionCategoryMap
            => \/ optionCategoryMap[userOptions.list[k]] \notin DOMAIN weights
               \/ weights[optionCategoryMap[userOptions.list[k]]].k # "pos"

\* C24: when no selected option is of a category with a positive weight,
\* every beach of the feature map gets match_percentage 0 and the request is
\* answered 200 with the first beaches of the list
C24_NothingWeightedIsZero ==
    (Scored /\ NothingWeighted) =>
        /\ Len(results) = Cardinality(DOMAIN beachMap)
        /\ \A k \in DOMAIN results : results[k].match_percentage = 0
        /\ pc = "done" =>
               /\ response.status = 200
               /\ Len(response.data) = Len(Slice(results, TopN))
               /\ \A k \in DOMAIN response.data :
                      /\ response.data[k].beach_id = results[k].beach_id
                      /\ response.data[k].match_percentage = 0

\* an answered request of a user with a positive weight for Scenery who
\* selected the Facilities option and the unknown ID
C24_Witness ==
    /\ pc = "done"
    /\ Scored
    /\ NothingWeighted
    /\ userOptions.list = <<3, 4>>
    /\ \E c \in DOMAIN weights : weights[c].k = "pos"
    /\ response.data # <<>>

\* C21: a request one of whose reads failed has ended with the error
\* response, which carries no recommendation data
C21_FailedReadIsError ==
    failedQuery # NoQuery =>
        /\ pc = "done"
        /\ response.status = 500
        /\ ~response.hasData
        /\ response.data = <<>>

\* the option rows could not be read after the weights and the index were:
\* nothing was scored
C21_Witness ==
    /\ failedQuery = "beach_options"
    /\ DOMAIN weights # {}
    /\ optionCategoryMap # <<>>
    /\ results = <<>>
    /\ response.status = 500

\* C25: the connection of a request is released once when the handler has
\* answered, whatever the answer, and not before
C25_ReleasedOnce ==
    /\ pc = "done" => released = 1
    /\ pc # "done" => released = 0

\* a request answered 500 because a top match has no detail row
C25_Witness ==
    /\ pc = "done"
    /\ response.status = 500
    /\ failedQuery = NoQuery
    /\ Scored
    /\ released = 1

\* C22: no step of a recommendation request changes a stored table, on
\* whatever path it ends, and a request begins with nothing an earlier
\* request computed
C22_RequestOnlyReads ==
    /\ [][pc' # pc => UNCHANGED dbVars]_vars
    /\ [](pc = "idle" =>
             /\ preferenceRows = <<>>
             /\ weights = EmptyMap
             /\ optionCategoryMap = <<>>
             /\ reviewSummaryBeachIds = {}
             /\ beachOptions = <<>>
             /\ beachMap = <<>>
             /\ results = <<>>
             /\ response = NoResponse)

\* a second request answered with scored beaches, after a first one and
\* after a review handler changed the tables
C22_Witness ==
    /\ served = 1
    /\ Answered
    /\ reviewStatus = 201
    /\ review_summary # {}

\* the response to a request with the body body that runs alone and reads
\* every table as it is
Alone(body) ==
    IF body.kind # "array" \/ body.list = <<>>
    THEN Respond(400, "No user options provided")
    ELSE IF GetUserPreferenceWeights(UserPreferenceRows(user_preferences))
                = EmptyMap
    THEN Respond(400, "User preferences not found")
    ELSE LET res == CalculateBeachMatches(
                        body.list,
                        GroupBeachOptionsByBeachId(
                            OptionRowsInOrder(
                                BeachOptionRows(ReviewSummaryBeaches(review_summary),
                                                review_summary,
                                                beaches_default_options), "asc")),
                        GetOptionCategoryMap,
                        GetUserPreferenceWeights(
                            UserPreferenceRows(user_preferences)))
         IN IF res = <<>>
            THEN RespondData(200, "No beach recommendations found", <<>>)
            ELSE DetailsResponse(
                     Slice(res, TopN),
                     DetailRowsInOrder(
                         BeachDetailRows(Slice(res, TopN), beaches, contents),
                         "asc"))

\* C23: of two requests that run concurrently over unchanged tables each
\* is answered as when it runs alone
C23_ConcurrentAsAlone ==
    /\ pc = "done" => response = Alone(userOptions)
    /\ other.pc = "done" => other.response = Alone(other.userOptions)

\* the second request answered with scored beaches while the first, with
\* another selection, has scored its own and awaits its detail rows
C23_Witness ==
    /\ pc = "await_details"
    /\ other.pc = "done"
    /\ userOptions.list = <<1>>
    /\ other.userOptions.list = <<2, 3>>
    /\ other.response.data # <<>>
    /\ other.response = Alone(other.userOptions)
    /\ results # other.results

\* the connections acquired by the preference handlers and not released
Unreleased ==
    Cardinality({u \in Updaters : updaters[u].connection = "held"})
        + (IF categoryRequest.connection = "held" THEN 1 ELSE 0)

\* C26: once getPreferenceCategories and the updateUserPreferences requests
\* have answered, also with 500 after a query that threw, none of their
\* connections is unreleased
C26_ConnectionsReleased ==
    (/\ categoryRequest.pc \in {"idle", "done"}
     /\ \A u \in Updaters : updaters[u].pc \in {"idle", "done"})
        => Unreleased = 0

\* C27: after any interleaving of updateUserPreferences requests of the user
\* user_preferences holds at most one row per category, and the weights a
\* request computes from rows with positive scores sum to 1
C27_OneRowPerCategory ==
    /\ \A i, j \in DOMAIN user_preferences :
           i # j => user_preferences[i].cat # user_preferences[j].cat
    /\ (/\ weights # EmptyMap
        /\ \A i \in DOMAIN preferenceRows : preferenceRows[i].rank > 0)
           => NearOne(SumWeights(weights, DOMAIN weights))

\* the IDs of the reviews of beach b
ReviewIdsOf(b) == {r.id : r \in {x \in reviews : x.beaches_id = b}}

\* the options voted for in some review of beach b
VotedOptions(b) ==
    {v.options_id : v \in {x \in option_votes : x.reviews_id \in ReviewIdsOf(b)}}

\* the feature map of a request both of whose queries read the tables as
\* they are
MapNow ==
    GroupBeachOptionsByBeachId(
        OptionRowsInOrder(BeachOptionRows(ReviewSummaryBeaches(review_summary),
                                          review_summary, beaches_default_options),
                          "asc"))

\* C28: in every state, so after every commit of addReview or editReview,
\* the review_summary rows of a beach are one row per option voted for in a
\* review of the beach, with the number of those votes; a beach without
\* votes has no rows, and a request that begins now takes its default options
C28_SummaryIsVoteCount ==
    \A b \in 1..MaxBeaches :
        /\ {r \in review_summary : r.beaches_id = b}
               = {SummaryRow(b, o,
                             Cardinality({v \in option_votes :
                                             /\ v.reviews_id \in ReviewIdsOf(b)
                                             /\ v.options_id = o})) :
                     o \in VotedOptions(b)}
        /\ (VotedOptions(b) = {} /\ OptionsIn(beaches_default_options, b) # {})
               => /\ b \in DOMAIN MapNow
                  /\ MapNow[b] = OptionsIn(beaches_default_options, b)

\* editReview has committed and left a beach with a review without votes:
\* the beach has no summary rows and has default options
C28_Witness ==
    /\ reviewStatus = 200
    /\ \E b \in 1..MaxBeaches :
           /\ ReviewIdsOf(b) # {}
           /\ VotedOptions(b) = {}
           /\ OptionsIn(beaches_default_options, b) # {}
           /\ OptionsIn(review_summary, b) = {}

\* C29: a beach with default option rows has an entry in the feature map of
\* every request, and a BeachMatch, whatever review handlers commit between
\* the two queries of getBeachOptions
C29_DefaultBeachAlwaysScored ==
    Grouped =>
        \A b \in 1..MaxBeaches :
            OptionsIn(beaches_default_options, b) # {}
                => /\ b \in DOMAIN beachMap
                   /\ \E k \in DOMAIN results : results[k].beach_id = b
\* the summary rows of beach b counted from the committed reviews and votes
CountedSummary(b) ==
    {SummaryRow(b, o, Cardinality({v \in option_votes :
                                      /\ v.reviews_id \in ReviewIdsOf(b)
                                      /\ v.options_id = o})) :
        o \in VotedOptions(b)}

====
